---- MODULE Spec2Model ----
(***************************************************************************)
(* Model of the serverstat decoders (quakeworld/serverstat).               *)
(*                                                                         *)
(* Byte buffers and text are sequences of integers: a byte is its value,   *)
(* a character is its code point.  Every decoder is a pure function of the *)
(* buffer it is given; a decoder returns one of                            *)
(*     [tag |-> "Ok", val |-> ...]   the Ok(..) value                      *)
(*     [tag |-> "Err", msg |-> ...]  the Err(..) value                     *)
(*     [tag |-> "Panic"]             the thread panicked (index out of     *)
(*                                   bounds) and nothing was returned      *)
(*                                                                         *)
(* bytes, server, result and pc are the input, the returned value and the  *)
(* position of one call; query_address, sent, received, res and ip are the *)
(* state of one call of QuakeServer::try_from_address and stay idle in the *)
(* specifications of the single functions.                                 *)
(***************************************************************************)
EXTENDS Integers, Sequences, FiniteSets, TLC

VARIABLES bytes, server, result, pc, query_address, sent, received, res, ip

vars == <<bytes, server, result, pc, query_address, sent, received, res, ip>>

(***************************************************************************)
(* Bounds of the enumerated inputs.                                        *)
(***************************************************************************)
\* largest number of wire tokens of an enumerated client or qtv line
MaxTokens == 10
\* largest number of records that follow the settings record of a buffer
MaxRows == 2

\* the longest line handed to the tokenizer on its own
MaxLineLen == 5
\* largest number of clients of a classified server
MaxClients == 4

(***************************************************************************)
(* Characters the code names.                                              *)
(***************************************************************************)
LF == 10
SPACE == 32
QUOTE == 34
PLUS == 43
MINUS == 45
ZERO == 48
COLON == 58
AT == 64

\* a call that cannot fail hands back its value
Returned(v) == [tag |-> "Value", val |-> v]

Panic == [tag |-> "Panic"]
Err(m) == [tag |-> "Err", msg |-> m]
Ok(v) == [tag |-> "Ok", val |-> v]
NoResult == [tag |-> "None"]

\* no server is being classified
NoServer == [tag |-> "None"]

(***************************************************************************)
(* Slices and string helpers of the standard library.                      *)
(***************************************************************************)
\* slice::starts_with / str::starts_with
starts_with(s, prefix) ==
    /\ Len(prefix) <= Len(s)
    /\ SubSeq(s, 1, Len(prefix)) = prefix

\* &s[n..]
DropFirst(s, n) == SubSeq(s, n + 1, Len(s))

\* str::trim_start_matches: removes the prefix as many times as it matches
RECURSIVE trim_start_matches(_, _)
trim_start_matches(s, pat) ==
    IF pat # <<>> /\ starts_with(s, pat)
    THEN trim_start_matches(DropFirst(s, Len(pat)), pat)
    ELSE s

\* index of the first occurrence of c in s at or after i, 0 when there is none
FindFrom(s, c, i) ==
    LET hits == { j \in i..Len(s) : s[j] = c }
    IN  IF hits = {} THEN 0 ELSE CHOOSE j \in hits : \A k \in hits : j <= k

\* str::split_once: None, or the parts before and after the first c
split_once(s, c) ==
    LET i == FindFrom(s, c, 1)
    IN  IF i = 0 THEN [some |-> FALSE]
        ELSE [some |-> TRUE, before |-> SubSeq(s, 1, i - 1), after |-> DropFirst(s, i)]

(***************************************************************************)
(* str::parse for the integer widths the decoders use.  An optional sign   *)
(* ('+', and '-' for a signed type) is followed by one or more decimal     *)
(* digits; every step is a checked multiply-and-add in the type's width.   *)
(* A parse returns [ok |-> FALSE] or [ok |-> TRUE, val |-> v].             *)
(***************************************************************************)
MaxU8 == 255
MaxU16 == 65535
MaxI32 == 2147483647
MinI32 == (-2147483647) - 1
Limb == 65536

NoParse == [ok |-> FALSE]

IsDigit(c) == c >= ZERO /\ c <= ZERO + 9

\* digits accumulated upwards, failing when the value would exceed max
RECURSIVE AccPos(_, _, _, _)
AccPos(s, i, acc, max) ==
    IF i > Len(s) THEN [ok |-> TRUE, val |-> acc]
    ELSE IF ~IsDigit(s[i]) THEN NoParse
    ELSE LET d == s[i] - ZERO
         IN  IF acc > (max - d) \div 10 THEN NoParse
             ELSE AccPos(s, i + 1, acc * 10 + d, max)

\* digits accumulated downwards (a negative number), failing below min
RECURSIVE AccNeg(_, _, _, _)
AccNeg(s, i, acc, min) ==
    IF i > Len(s) THEN [ok |-> TRUE, val |-> acc]
    ELSE IF ~IsDigit(s[i]) THEN NoParse
    ELSE LET d == s[i] - ZERO
         IN  IF acc < (min + d + 9) \div 10 THEN NoParse
             ELSE AccNeg(s, i + 1, acc * 10 - d, min)

\* an unsigned type: "+" is the only sign accepted
ParseUnsigned(s, max) ==
    IF s = <<>> THEN NoParse
    ELSE IF Len(s) = 1 /\ s[1] \in {PLUS, MINUS} THEN NoParse
    ELSE IF s[1] = PLUS THEN AccPos(s, 2, 0, max)
    ELSE AccPos(s, 1, 0, max)

ParseU8(s) == ParseUnsigned(s, MaxU8)
ParseU16(s) == ParseUnsigned(s, MaxU16)

ParseI32(s) ==
    IF s = <<>> THEN NoParse
    ELSE IF Len(s) = 1 /\ s[1] \in {PLUS, MINUS} THEN NoParse
    ELSE IF s[1] = PLUS THEN AccPos(s, 2, 0, MaxI32)
    ELSE IF s[1] = MINUS THEN AccNeg(s, 2, 0, MinI32)
    ELSE AccPos(s, 1, 0, MaxI32)

\* A u32 is held as two 16-bit limbs, value = hi * 65536 + lo.
U32(hi, lo) == [hi |-> hi, lo |-> lo]

\* the u32 of a natural number below 2^31
ToU32(n) == U32(n \div Limb, n % Limb)

RECURSIVE AccU32(_, _, _, _)
AccU32(s, i, hi, lo) ==
    IF i > Len(s) THEN [ok |-> TRUE, val |-> U32(hi, lo)]
    ELSE IF ~IsDigit(s[i]) THEN NoParse
    ELSE LET lo2 == lo * 10 + (s[i] - ZERO)
             hi2 == hi * 10 + lo2 \div Limb
         IN  IF hi2 >= Limb THEN NoParse
             ELSE AccU32(s, i + 1, hi2, lo2 % Limb)

ParseU32(s) ==
    IF s = <<>> THEN NoParse
    ELSE IF Len(s) = 1 /\ s[1] \in {PLUS, MINUS} THEN NoParse
    ELSE IF s[1] = PLUS THEN AccU32(s, 2, 0, 0)
    ELSE AccU32(s, 1, 0, 0)

\* i32::unsigned_abs: |v| as a u32, defined for i32::MIN too
unsigned_abs(v) ==
    IF v >= 0 THEN ToU32(v)
    ELSE LET m == -(v + 1)
             lo1 == (m % Limb) + 1
         IN  U32(m \div Limb + lo1 \div Limb, lo1 % Limb)

(***************************************************************************)
(* quake_text::bytestr::to_unicode: each byte becomes the character with   *)
(* the byte's value as code point (byte 244 is U+00F4, byte 135 is U+0087).*)
(***************************************************************************)
to_unicode(b) == [i \in 1..Len(b) |-> b[i]]

(***************************************************************************)
(* tokenize.rs                                                             *)
(***************************************************************************)
\* (mutant) a space outside quotes closes a token only when the token is not empty
TokenizeStepSkipEmpty(st, c) ==
    IF c = QUOTE THEN [st EXCEPT !.in_quote = ~@]
    ELSE IF c = SPACE /\ ~st.in_quote
    THEN IF st.current_token = <<>> THEN st
         ELSE [st EXCEPT !.tokens = Append(@, st.current_token), !.current_token = <<>>]
    ELSE [st EXCEPT !.current_token = Append(@, c)]

\* (mutant) a closing quote is kept in the token
TokenizeStepKeepQuote(st, c) ==
    IF c = QUOTE
    THEN [st EXCEPT !.in_quote = ~@,
                    !.current_token = IF st.in_quote THEN Append(@, c) ELSE @]
    ELSE IF c = SPACE /\ ~st.in_quote
    THEN [st EXCEPT !.tokens = Append(@, st.current_token), !.current_token = <<>>]
    ELSE [st EXCEPT !.current_token = Append(@, c)]

\* one turn of `for c in value.chars()`: the match on c
TokenizeStep(st, c) ==
    IF c = QUOTE THEN [st EXCEPT !.in_quote = ~@]
    ELSE IF c = SPACE /\ ~st.in_quote
    THEN [st EXCEPT !.tokens = Append(@, st.current_token), !.current_token = <<>>]
    ELSE [st EXCEPT !.current_token = Append(@, c)]

\* the turns for value[lo..hi] in order, from state st: the first half of the
\* range, then the second half from the state the first half leaves
RECURSIVE TokenizeRange(_, _, _, _)
TokenizeRange(value, lo, hi, st) ==
    IF lo > hi THEN st
    ELSE IF lo = hi THEN TokenizeStep(st, value[lo])
    ELSE LET mid == (lo + hi) \div 2
             half == TokenizeRange(value, lo, mid, st)
         IN  IF half.in_quote \in BOOLEAN
             THEN TokenizeRange(value, mid + 1, hi, half)
             ELSE half

tokenize(value) ==
    LET st == TokenizeRange(value, 1, Len(value),
                            [tokens |-> <<>>, in_quote |-> FALSE, current_token |-> <<>>])
    IN  Append(st.tokens, st.current_token)

(***************************************************************************)
(* client.rs                                                               *)
(***************************************************************************)
PLAYER_MIN_PING == 12
PLAYER_MAX_PING == 600

\* the "\s\" a spectating client's name is prefixed with
SpectatorPrefix == <<92, 115, 92>>

\* the name of a spectator: name.trim_start_matches("\\s\\")
SpectatorName(name) == trim_start_matches(name, SpectatorPrefix)

\* (mutant) a ping of 0 no longer counts as spectating
IsSpectatorBelowZero(ping_) == ping_ < 0

\* is_spectator: the raw ping is below 1
IsSpectator(ping_) == ping_ < 1

\* (mutant) the two ends of the range count as outside it
IsBotExclusiveRange(ping) ==
    ~(ping.hi = 0 /\ ping.lo > PLAYER_MIN_PING /\ ping.lo < PLAYER_MAX_PING)

\* is_bot: the ping is outside PLAYER_MIN_PING..=PLAYER_MAX_PING
IsBot(ping) ==
    ~(ping.hi = 0 /\ ping.lo >= PLAYER_MIN_PING /\ ping.lo <= PLAYER_MAX_PING)

\* parts[8] and parts[9] when present, "" otherwise
OptionalPart(parts, k) == IF Len(parts) >= k THEN parts[k] ELSE <<>>

\* the struct built once every field is decoded
ClientOf(parts, id, frags_, time, ping_, top_color, bottom_color) ==
    LET is_spectator == IsSpectator(ping_)
        ping == unsigned_abs(ping_)
    IN  [id |-> id,
         name |-> IF is_spectator THEN SpectatorName(parts[5]) ELSE parts[5],
         team |-> OptionalPart(parts, 9),
         frags |-> IF is_spectator THEN 0 ELSE frags_,
         ping |-> ping,
         time |-> time,
         top_color |-> top_color,
         bottom_color |-> bottom_color,
         skin |-> parts[6],
         auth_cc |-> OptionalPart(parts, 10),
         is_spectator |-> is_spectator,
         is_bot |-> IsBot(ping)]

\* The fields are taken in order; parts[k] of the code is parts[k + 1] here.
\* Indexing past the end panics, a failed parse returns the error.
ClientFromParts(parts) ==
    LET n == Len(parts)
        id == ParseU32(parts[1])
        frags == ParseI32(parts[2])
        time == ParseU32(parts[3])
        ping_ == ParseI32(parts[4])
        top_color == ParseU8(parts[7])
        bottom_color == ParseU8(parts[8])
    IN  IF ~id.ok THEN Err("parse")
        ELSE IF n < 2 THEN Panic
        ELSE IF ~frags.ok THEN Err("parse")
        ELSE IF n < 3 THEN Panic
        ELSE IF ~time.ok THEN Err("parse")
        ELSE IF n < 4 THEN Panic
        ELSE IF ~ping_.ok THEN Err("parse")
        ELSE IF n < 5 THEN Panic
        ELSE IF n < 6 THEN Panic
        ELSE IF n < 7 THEN Panic
        ELSE IF ~top_color.ok THEN Err("parse")
        ELSE IF n < 8 THEN Panic
        ELSE IF ~bottom_color.ok THEN Err("parse")
        ELSE Ok(ClientOf(parts, id.val, frags.val, time.val, ping_.val,
                         top_color.val, bottom_color.val))

QuakeClient_try_from(b) == ClientFromParts(tokenize(to_unicode(b)))

(***************************************************************************)
(* hostport.rs                                                             *)
(***************************************************************************)
Hostport_try_from(address) ==
    LET parts == split_once(address, COLON)
    IN  IF ~parts.some THEN Err("Invalid hostport format, expected host:port")
        ELSE LET port == ParseU16(parts.after)
             IN  IF ~port.ok THEN Err("parse")
                 ELSE Ok([host |-> parts.before, port |-> port.val])

(***************************************************************************)
(* qtv.rs                                                                  *)
(***************************************************************************)
\* url.split_once('@'): the channel number and the host:port part
QtvNumber(url) ==
    LET parts == split_once(url, AT)
        number == ParseU32(parts.before)
    IN  IF ~parts.some THEN ToU32(0)
        ELSE IF number.ok THEN number.val
        ELSE ToU32(0)

QtvHostport(url) ==
    LET parts == split_once(url, AT)
    IN  IF parts.some THEN parts.after ELSE url

\* parts[k] of the code is parts[k + 1] here
QtvFromParts(parts) ==
    LET n == Len(parts)
        id == ParseU32(parts[2])
        client_count == ParseU32(parts[5])
        address == Hostport_try_from(QtvHostport(parts[4]))
    IN  IF n < 2 THEN Panic
        ELSE IF ~id.ok THEN Err("parse")
        ELSE IF n < 3 THEN Panic
        ELSE IF n < 4 THEN Panic
        ELSE IF n < 5 THEN Panic
        ELSE IF ~client_count.ok THEN Err("parse")
        ELSE IF address.tag # "Ok" THEN address
        ELSE Ok([id |-> id.val,
                 name |-> parts[3],
                 number |-> QtvNumber(parts[4]),
                 address |-> address.val,
                 client_count |-> client_count.val,
                 client_names |-> <<>>])

QtvStream_try_from(b) == QtvFromParts(tokenize(to_unicode(b)))

(***************************************************************************)
(* svc_status.rs                                                           *)
(***************************************************************************)
None == [some |-> FALSE]
Some(v) == [some |-> TRUE, val |-> v]

\* Result::ok
Result_ok(r) == IF r.tag = "Ok" THEN Some(r.val) ELSE None

StatusHeader == <<255, 255, 255, 255, 110>>

\* "hostname\\x".len()
MIN_SERVERINFO_LENGTH == Len(<<104, 111, 115, 116, 110, 97, 109, 101, 92, 120>>)

QtvMarker == <<113, 116, 118, 32>>

\* Cursor::new(body).split(delim): each turn reads up to the next delimiter
\* (read_until) and yields the bytes before it; the bytes after the last
\* delimiter are a record when there are any
RECURSIVE SplitFrom(_, _, _, _)
SplitFrom(body, delim, start, rows) ==
    IF start > Len(body) THEN rows
    ELSE LET i == FindFrom(body, delim, start)
         IN  IF i = 0 THEN Append(rows, SubSeq(body, start, Len(body)))
             ELSE SplitFrom(body, delim, i + 1, Append(rows, SubSeq(body, start, i - 1)))

split(body, delim) == SplitFrom(body, delim, 1, <<>>)

\* (mutant) only the four 0xFF bytes are compared
HasStatusHeaderFourBytes(b) == starts_with(b, SubSeq(StatusHeader, 1, 4))

HasStatusHeader(b) == starts_with(b, StatusHeader)

\* (mutant) a first record of exactly the minimal length is refused
BodyTooShortOffByOne(rows) == rows = <<>> \/ Len(rows[1]) <= MIN_SERVERINFO_LENGTH

BodyTooShort(rows) == rows = <<>> \/ Len(rows[1]) < MIN_SERVERINFO_LENGTH

\* quake_serverinfo::Settings::from keeps the record; the keys are read where
\* a setting is used
Settings_from(row) == row

\* the index of the first row the loop `for row in rows` visits
FirstRowVisited == 1

\* (mutant) the decoded client is put at the front of the list
PushClientFront(clients, client) == <<client>> \o clients

\* clients.push(client)
PushClient(clients, client) == Append(clients, client)

\* for row in rows { .. }: a panic in a record decoder ends the call
RECURSIVE ParseRows(_, _, _, _)
ParseRows(rows, i, clients, qtv_stream) ==
    IF i > Len(rows)
    THEN Ok([settings |-> Settings_from(rows[1]),
             clients |-> clients,
             qtv_stream |-> qtv_stream])
    ELSE IF starts_with(rows[i], QtvMarker)
    THEN LET r == QtvStream_try_from(rows[i])
         IN  IF r.tag = "Panic" THEN Panic
             ELSE ParseRows(rows, i + 1, clients, Result_ok(r))
    ELSE LET r == QuakeClient_try_from(rows[i])
         IN  IF r.tag = "Panic" THEN Panic
             ELSE IF r.tag = "Ok" THEN ParseRows(rows, i + 1, PushClient(clients, r.val), qtv_stream)
             ELSE ParseRows(rows, i + 1, clients, qtv_stream)

Status119Response_try_from(b) ==
    IF ~HasStatusHeader(b) THEN Err("Invalid header")
    ELSE LET rows == split(DropFirst(b, Len(StatusHeader)), LF)
         IN  IF BodyTooShort(rows) THEN Err("Invalid body")
             ELSE ParseRows(rows, FirstRowVisited, <<>>, None)

(***************************************************************************)
(* quake_text::unicode::ord, the comparator of names: the two names are    *)
(* compared character by character after a character of the upper half of  *)
(* the server's charset is taken as its plain twin and an upper-case       *)
(* letter as its lower-case one ("axe" < "áøå2" < "B" < "foo").            *)
(***************************************************************************)
CollationKey(c) ==
    LET plain == IF c < 256 THEN c % 128 ELSE c
    IN  IF plain >= 65 /\ plain <= 90 THEN plain + 32 ELSE plain

ord(a, b) ==
    LET n == IF Len(a) < Len(b) THEN Len(a) ELSE Len(b)
        diff == { i \in 1..n : CollationKey(a[i]) # CollationKey(b[i]) }
    IN  IF diff # {}
        THEN LET i == CHOOSE j \in diff : \A k \in diff : j <= k
             IN  IF CollationKey(a[i]) < CollationKey(b[i]) THEN "Less" ELSE "Greater"
        ELSE IF Len(a) < Len(b) THEN "Less"
        ELSE IF Len(a) > Len(b) THEN "Greater"
        ELSE "Equal"

\* slice::sort and slice::sort_by, with keys[i] the name element i is
\* compared by: stable, so the place of an element is the number of elements
\* that compare Less than it, or Equal and stand before it
sort_by(s, keys) ==
    LET before(i) == { j \in 1..Len(s) :
                         \/ ord(keys[j], keys[i]) = "Less"
                         \/ ord(keys[j], keys[i]) = "Equal" /\ j < i }
    IN  [p \in 1..Len(s) |-> s[CHOOSE i \in 1..Len(s) : Cardinality(before(i)) = p - 1]]

(***************************************************************************)
(* f32 arithmetic on the values team.rs computes with.  A float that holds *)
(* a whole number is [m, e], standing for m * 2^e, with m below 2^24, and  *)
(* m at least 2^23 when e is above 0.  Every operation rounds its exact    *)
(* result to 24 significant bits, ties to even.                            *)
(***************************************************************************)
F32Bits == 24

F32(m, e) == [m |-> m, e |-> e]

\* t plus the fraction num/den, rounded to a whole number, ties to even
RoundEven(t, num, den) ==
    IF 2 * num > den \/ (2 * num = den /\ t % 2 = 1) THEN t + 1 ELSE t

\* a rounded significand that reached 2^24 moves to the next exponent
Normalize(m, e) == IF m = 2^F32Bits THEN F32(2^(F32Bits - 1), e + 1) ELSE F32(m, e)

\* `ping as f32`, ping an unsigned 32-bit value
F32FromU32(u) ==
    IF u.hi < 256 THEN F32(u.hi * Limb + u.lo, 0)
    ELSE LET s == CHOOSE k \in 1..8 : u.hi >= 2^(7 + k) /\ u.hi < 2^(8 + k)
             t == u.hi * 2^(16 - s) + u.lo \div 2^s
         IN  Normalize(RoundEven(t, u.lo % 2^s, 2^s), s)

\* a + b in f32, for two floats that hold whole numbers
F32Add(a, b) ==
    LET x == IF a.e >= b.e THEN a ELSE b
        y == IF a.e >= b.e THEN b ELSE a
        d == x.e - y.e
        t == x.m + y.m \div 2^d
        r == y.m % 2^d
    IN  IF t < 2^F32Bits
        THEN Normalize(RoundEven(t, r, 2^d), x.e)
        ELSE Normalize(RoundEven(t \div 2, (t % 2) * 2^d + r, 2^(d + 1)), x.e + 1)

\* a / n in f32, n a small positive count held exactly: the significand has
\* 24 bits, the exponent may be below 0
F32Div(a, n) ==
    IF a.m = 0 THEN F32(0, 0)
    ELSE LET k == CHOOSE j \in 0..F32Bits :
                      a.m * 2^j >= 2^(F32Bits - 1) * n /\ a.m * 2^j < 2^F32Bits * n
             q == (a.m * 2^k) \div n
             r == (a.m * 2^k) % n
         IN  F32(RoundEven(q, r, n), a.e - k)

\* f32::round: to the nearest whole number, a half away from zero
F32Round(x) ==
    IF x.e >= 0 THEN Normalize(x.m, x.e)
    ELSE LET s == -x.e
         IN  F32((x.m + 2^(s - 1)) \div 2^s, 0)

\* `as u32` of a float that holds a whole number: saturating
F32AsU32(x) ==
    IF x.e > 8 THEN U32(MaxU16, MaxU16)
    ELSE U32(x.m \div 2^(16 - x.e), (x.m % 2^(16 - x.e)) * 2^x.e)

(***************************************************************************)
(* svc_qtvusers.rs.  A usize is held as four 16-bit limbs (a 64-bit        *)
(* target), value = w3 * 2^48 + w2 * 2^32 + w1 * 2^16 + w0.                *)
(***************************************************************************)
RECURSIVE AccUsize(_, _, _)
AccUsize(s, i, w) ==
    IF i > Len(s) THEN [ok |-> TRUE, val |-> w]
    ELSE IF ~IsDigit(s[i]) THEN NoParse
    ELSE LET w0 == w.w0 * 10 + (s[i] - ZERO)
             w1 == w.w1 * 10 + w0 \div Limb
             w2 == w.w2 * 10 + w1 \div Limb
             w3 == w.w3 * 10 + w2 \div Limb
         IN  IF w3 >= Limb THEN NoParse
             ELSE AccUsize(s, i + 1,
                           [w3 |-> w3, w2 |-> w2 % Limb, w1 |-> w1 % Limb, w0 |-> w0 % Limb])

ParseUsize(s) ==
    IF s = <<>> THEN NoParse
    ELSE IF Len(s) = 1 /\ s[1] \in {PLUS, MINUS} THEN NoParse
    ELSE IF s[1] = PLUS THEN AccUsize(s, 2, [w3 |-> 0, w2 |-> 0, w1 |-> 0, w0 |-> 0])
    ELSE AccUsize(s, 1, [w3 |-> 0, w2 |-> 0, w1 |-> 0, w0 |-> 0])

\* b"\xff\xff\xff\xffnqtvusers "
QtvusersHeader == <<255, 255, 255, 255, 110, 113, 116, 118, 117, 115, 101, 114, 115, 32>>

\* (mutant) the token of the stream id is kept among the names
QtvusersNamesWithId(parts) == parts

\* parts[1..]
QtvusersNames(parts) == Tail(parts)

\* end_pos of the code is end_pos - 1 here
QtvusersResponse_try_from(b) ==
    IF ~starts_with(b, QtvusersHeader) THEN Err("Invalid response header")
    ELSE LET end_pos == FindFrom(b, LF, 1)
         IN  IF end_pos = 0 THEN Err("Invalid response body")
             ELSE IF end_pos - 1 < Len(QtvusersHeader) THEN Panic
             ELSE LET body == SubSeq(b, Len(QtvusersHeader) + 1, end_pos - 1)
                      parts == tokenize(to_unicode(body))
                      stream_id == ParseUsize(parts[1])
                  IN  IF ~stream_id.ok THEN Err("parse")
                      ELSE Ok([stream_id |-> stream_id.val,
                               client_names |-> QtvusersNames(parts)])

(***************************************************************************)
(* team.rs.  A HashMap is walked in an order the program does not choose:  *)
(* the order is a parameter here, and a caller takes every order.          *)
(***************************************************************************)
\* the sequences that list every element of the set S once
Orders(S) ==
    { o \in [1..Cardinality(S) -> S] : \A i, j \in 1..Cardinality(S) : o[i] = o[j] => i = j }

\* i32 `+=`: a build with overflow checks panics when the sum leaves the
\* range, a build without them wraps
AddI32(a, b, overflow_checks) ==
    IF b > 0 /\ a > MaxI32 - b
    THEN IF overflow_checks THEN Panic ELSE Returned(((a - MaxI32) - 1) + ((b - MaxI32) - 1))
    ELSE IF b < 0 /\ a < MinI32 - b
    THEN IF overflow_checks THEN Panic ELSE Returned(((a + MaxI32) + 1) + ((b + MaxI32) + 1))
    ELSE Returned(a + b)

\* TempTeam::default()
TempTeamDefault ==
    [name |-> <<>>, frags |-> 0, ping_sum |-> F32(0, 0), player_count |-> 0, colors |-> <<>>]

\* temp.entry(name).or_default()
Entry(temp, name) == IF name \in DOMAIN temp THEN temp[name] ELSE TempTeamDefault

\* temp with the value of key name set to team
Insert(temp, name, team) ==
    [n \in DOMAIN temp \cup {name} |-> IF n = name THEN team ELSE temp[n]]

\* one turn of `for player in players`
Accumulate(temp, player, overflow_checks) ==
    LET team == Entry(temp, player.team)
        frags == AddI32(team.frags, player.frags, overflow_checks)
    IN  IF frags.tag = "Panic" THEN Panic
        ELSE Returned(Insert(temp, player.team,
                       [name |-> player.team,
                        frags |-> frags.val,
                        ping_sum |-> F32Add(team.ping_sum, F32FromU32(player.ping)),
                        player_count |-> team.player_count + 1,
                        colors |-> Append(team.colors, <<player.top_color, player.bottom_color>>)]))

\* the turns of `for player in players` from player i on
RECURSIVE AccumulateFrom(_, _, _, _)
AccumulateFrom(players, i, temp, overflow_checks) ==
    IF i > Len(players) THEN Returned(temp)
    ELSE LET next == Accumulate(temp, players[i], overflow_checks)
         IN  IF next.tag = "Panic" THEN Panic
             ELSE AccumulateFrom(players, i + 1, next.val, overflow_checks)

\* the counts of color_count: one key for each pair of colors
ColorCount(colors) ==
    [c \in { colors[i] : i \in 1..Len(colors) } |->
        Cardinality({ i \in 1..Len(colors) : colors[i] = c })]

\* `for (color, count) in color_count`, the map walked in the order `order`
RECURSIVE MajorityFrom(_, _, _, _, _)
MajorityFrom(color_count, order, i, max_count, majority_color) ==
    IF i > Len(order) THEN majority_color
    ELSE IF color_count[order[i]] > max_count
    THEN MajorityFrom(color_count, order, i + 1, color_count[order[i]], order[i])
    ELSE MajorityFrom(color_count, order, i + 1, max_count, majority_color)

\* (mutant) the pair of the first member up to three members
get_majority_color_below_four(colors, order) ==
    IF colors = <<>> THEN <<0, 0>>
    ELSE IF Len(colors) < 4 THEN colors[1]
    ELSE MajorityFrom(ColorCount(colors), order, 1, 0, <<0, 0>>)

get_majority_color(colors, order) ==
    IF colors = <<>> THEN <<0, 0>>
    ELSE IF Len(colors) < 3 THEN colors[1]
    ELSE MajorityFrom(ColorCount(colors), order, 1, 0, <<0, 0>>)

\* what get_majority_color can return for colors, over the orders of the map
MajorityColors(colors) ==
    { get_majority_color(colors, order) : order \in Orders(DOMAIN ColorCount(colors)) }

\* Ord for Team: teams compare by name
TeamKeys(teams) == [i \in 1..Len(teams) |-> teams[i].name]

\* the Team pushed for one value of temp
TeamOf(team, color) ==
    [name |-> team.name,
     frags |-> team.frags,
     ping |-> F32AsU32(F32Round(F32Div(team.ping_sum, team.player_count))),
     top_color |-> color[1],
     bottom_color |-> color[2]]

\* what from_players can do: panic, or return the teams of temp.values(),
\* walked in some order and then sorted
from_players(players, overflow_checks) ==
    LET temp == AccumulateFrom(players, 1, <<>>, overflow_checks)
    IN  IF temp.tag = "Panic" THEN {Panic}
        ELSE LET names == DOMAIN temp.val
                 pairs == UNION { MajorityColors(temp.val[n].colors) : n \in names }
                 picks == { f \in [names -> pairs] :
                              \A n \in names : f[n] \in MajorityColors(temp.val[n].colors) }
                 pushed(values, pick) ==
                     [i \in 1..Len(values) |-> TeamOf(temp.val[values[i]], pick[values[i]])]
             IN  { Returned(sort_by(pushed(values, pick), TeamKeys(pushed(values, pick)))) :
                     values \in Orders(names), pick \in picks }

(***************************************************************************)
(* gameserver.rs                                                           *)
(***************************************************************************)
\* Ord for QuakeClient: clients compare by name
ClientKeys(clients) == [i \in 1..Len(clients) |-> clients[i].name]

\* (mutant) players compare by their own name
PlayerNameKeys(players) == [i \in 1..Len(players) |-> players[i].name]

\* the comparator of players.sort_by: players compare by team name
PlayerTeamKeys(players) == [i \in 1..Len(players) |-> players[i].team]

\* Player::from(&QuakeClient)
Player_from(client) ==
    [id |-> client.id,
     name |-> client.name,
     team |-> client.team,
     frags |-> client.frags,
     ping |-> client.ping,
     time |-> client.time,
     top_color |-> client.top_color,
     bottom_color |-> client.bottom_color,
     skin |-> client.skin,
     is_bot |-> client.is_bot,
     auth_cc |-> client.auth_cc]

\* Spectator::from(&QuakeClient)
Spectator_from(client) ==
    [id |-> client.id,
     name |-> client.name,
     is_bot |-> client.is_bot,
     auth_cc |-> client.auth_cc]

IsPlayerClient(c) == ~c.is_spectator

IsSpectatorClient(c) == c.is_spectator

\* (mutant) every client is taken as a player
PlayersOfAll(clients) == [i \in 1..Len(clients) |-> Player_from(clients[i])]

\* clients.iter().filter(|c| !c.is_spectator).map(Player::from).collect()
PlayersOf(clients) ==
    LET kept == SelectSeq(clients, IsPlayerClient)
    IN  [i \in 1..Len(kept) |-> Player_from(kept[i])]

\* clients.iter().filter(|c| c.is_spectator).map(Spectator::from).collect()
SpectatorsOf(clients) ==
    LET kept == SelectSeq(clients, IsSpectatorClient)
    IN  [i \in 1..Len(kept) |-> Spectator_from(kept[i])]

\* (mutant) a teamplay setting of 0 counts as team play
IsTeamplayFromZero(settings) == settings.teamplay.some /\ settings.teamplay.val >= 0

\* server.settings.teamplay.is_some_and(|tp| tp > 0)
IsTeamplay(settings) == settings.teamplay.some /\ settings.teamplay.val > 0

\* what GameServer::from(&server) can do: panic in from_players, or return
GameServer_from(srv, overflow_checks) ==
    LET clients == sort_by(srv.clients, ClientKeys(srv.clients))
        is_teamplay == IsTeamplay(srv.settings)
        unsorted_players == PlayersOf(clients)
        players == IF is_teamplay THEN sort_by(unsorted_players, PlayerTeamKeys(unsorted_players))
                   ELSE unsorted_players
        spectators == SpectatorsOf(clients)
        teams == IF is_teamplay THEN from_players(players, overflow_checks)
                 ELSE {Returned(<<>>)}
    IN  { IF t.tag = "Panic" THEN Panic
          ELSE Returned([settings |-> srv.settings,
                         teams |-> t.val,
                         players |-> players,
                         spectators |-> spectators]) : t \in teams }

(***************************************************************************)
(* software_type.rs and server_type.rs                                     *)
(***************************************************************************)
WordFo    == <<102, 111>>                     \* fo
WordFte   == <<102, 116, 101>>                \* fte
WordMvdsv == <<109, 118, 100, 115, 118>>      \* mvdsv
WordQtvgo == <<113, 116, 118, 103, 111>>      \* qtvgo
WordQtv   == <<113, 116, 118>>                \* qtv
WordQwfwd == <<113, 119, 102, 119, 100>>      \* qwfwd

\* char::to_lowercase on the characters a settings string is made of: the
\* letters A-Z and the upper-case letters of U+00C0..U+00DE move 32 up
LowerChar(c) ==
    IF (c >= 65 /\ c <= 90) \/ (c >= 192 /\ c <= 222 /\ c # 215) THEN c + 32 ELSE c

\* str::to_lowercase
to_lowercase(s) == [i \in 1..Len(s) |-> LowerChar(s[i])]

\* version.split_once(' ').map(|(v, _)| v).unwrap_or(version)
VersionPrefix(version) ==
    LET parts == split_once(version, SPACE)
    IN  IF parts.some THEN parts.before ELSE version

\* (mutant) a prefix that starts with one of the words matches it
SoftwareType_from_version_starts_with(version) ==
    LET prefix == to_lowercase(VersionPrefix(version))
    IN  IF starts_with(prefix, WordFo) THEN "FortressOne"
        ELSE IF starts_with(prefix, WordFte) THEN "Fte"
        ELSE IF starts_with(prefix, WordMvdsv) THEN "Mvdsv"
        ELSE IF starts_with(prefix, WordQtvgo) THEN "Qtv"
        ELSE IF starts_with(prefix, WordQtv) THEN "Qtv"
        ELSE IF starts_with(prefix, WordQwfwd) THEN "Qwfwd"
        ELSE "Unknown"

\* SoftwareType::from_version
SoftwareType_from_version(version) ==
    LET prefix == to_lowercase(VersionPrefix(version))
    IN  IF prefix = WordFo THEN "FortressOne"
        ELSE IF prefix = WordFte THEN "Fte"
        ELSE IF prefix = WordMvdsv THEN "Mvdsv"
        ELSE IF prefix = WordQtvgo THEN "Qtv"
        ELSE IF prefix = WordQtv THEN "Qtv"
        ELSE IF prefix = WordQwfwd THEN "Qwfwd"
        ELSE "Unknown"

\* (mutant) qtvgo is not among the words of a QTV server
ServerType_from_version_without_qtvgo(version) ==
    LET prefix == to_lowercase(VersionPrefix(version))
    IN  IF prefix \in {WordFo, WordFte, WordMvdsv} THEN "GameServer"
        ELSE IF prefix \in {WordQtv} THEN "QtvServer"
        ELSE IF prefix \in {WordQwfwd} THEN "ProxyServer"
        ELSE "Unknown"

\* ServerType::from_version
ServerType_from_version(version) ==
    LET prefix == to_lowercase(VersionPrefix(version))
    IN  IF prefix \in {WordFo, WordFte, WordMvdsv} THEN "GameServer"
        ELSE IF prefix \in {WordQtvgo, WordQtv} THEN "QtvServer"
        ELSE IF prefix \in {WordQwfwd} THEN "ProxyServer"
        ELSE "Unknown"

(***************************************************************************)
(* server.rs, and the requests of svc_status.rs and svc_qtvusers.rs.       *)
(***************************************************************************)
\* b"\xff\xff\xff\xffstatus 119"
StatusRequest == <<255, 255, 255, 255, 115, 116, 97, 116, 117, 115, 32, 49, 49, 57>>

\* b"\xff\xff\xff\xffqtvusers"
QtvusersRequest == <<255, 255, 255, 255, 113, 116, 118, 117, 115, 101, 114, 115>>

BACKSLASH == 92

KeyHostport == <<104, 111, 115, 116, 112, 111, 114, 116>>          \* hostport
KeyVersion  == <<42, 118, 101, 114, 115, 105, 111, 110>>           \* *version

\* a field of the settings: the value that follows the key in the
\* \key\value\key\value text of the settings record, absent without the key
InfoValue(settings, key) ==
    LET fields == split(settings, BACKSLASH)
        at == { i \in 1..(Len(fields) - 1) : i % 2 = 0 /\ fields[i] = key }
    IN  IF at = {} THEN None
        ELSE Some(fields[(CHOOSE i \in at : \A j \in at : i <= j) + 1])

\* Option::unwrap_or(default), Option::unwrap_or_default() of a string
unwrap_or(option, default) == IF option.some THEN option.val ELSE default

\* QtvusersResponse::default()
QtvusersResponseDefault ==
    [stream_id |-> [w3 |-> 0, w2 |-> 0, w1 |-> 0, w0 |-> 0], client_names |-> <<>>]

\* Result::unwrap_or_default() of the qtvusers exchange
QtvusersOrDefault(r) == IF r.tag = "Ok" THEN r.val ELSE QtvusersResponseDefault

\* (mutant) the advertised viewer count is set to the number of names
WithViewersCounted(qtv_stream, users) ==
    [qtv_stream EXCEPT !.client_names = users.client_names,
                       !.client_count = ToU32(Len(users.client_names))]

\* QtvStream { client_names: res.client_names, ..qtv_stream }
WithViewers(qtv_stream, users) ==
    [qtv_stream EXCEPT !.client_names = users.client_names]

\* (mutant) the caller's address is used whatever the settings hold
AddressStringOfCaller(settings, caller) == caller

\* res.settings.hostport.clone().unwrap_or(address.to_string())
AddressString(settings, caller) == unwrap_or(InfoValue(settings, KeyHostport), caller)

\* (mutant) the stream's viewers are asked for whatever the snapshot holds
NeedsQtvusersAlways(snapshot) == TRUE

\* match res.qtv_stream { Some(..) => qtvusers(..), None => None }
NeedsQtvusers(snapshot) == snapshot.qtv_stream.some

\* the end of try_from_address, from the address on: snapshot is res with
\* its stream enriched, resolved the text of net_extra::address_to_ip
Finish(snapshot, caller, resolved) ==
    LET hostport == Hostport_try_from(AddressString(snapshot.settings, caller))
        version == unwrap_or(InfoValue(snapshot.settings, KeyVersion), <<>>)
    IN  IF hostport.tag # "Ok" THEN hostport
        ELSE Ok([server_type |-> ServerType_from_version(version),
                 software_type |-> SoftwareType_from_version(version),
                 address |-> hostport.val,
                 ip |-> resolved,
                 settings |-> snapshot.settings,
                 clients |-> snapshot.clients,
                 qtv_stream |-> snapshot.qtv_stream])

(***************************************************************************)
(* Enumerated lines: a base line's wire tokens, one of them replaced, cut  *)
(* or extended to n tokens and joined by single spaces.                    *)
(***************************************************************************)
RECURSIVE Join(_)
Join(toks) ==
    IF toks = <<>> THEN <<>>
    ELSE IF Len(toks) = 1 THEN toks[1]
    ELSE toks[1] \o <<SPACE>> \o Join(Tail(toks))

\* the token added for each position past the end of the base line
ExtraToken == <<120>>

Resize(toks, n) ==
    [i \in 1..n |-> IF i <= Len(toks) THEN toks[i] ELSE ExtraToken]

Replace(toks, k, t) == [i \in 1..Len(toks) |-> IF i = k THEN t ELSE toks[i]]

ClientBaseLines ==
    { \* 63 43 41 25 "ToT_Oddjob" "" 4 4 "red" ""
      << <<54, 51>>, <<52, 51>>, <<52, 49>>, <<50, 53>>,
         <<34, 84, 111, 84, 95, 79, 100, 100, 106, 111, 98, 34>>, <<34, 34>>,
         <<52>>, <<52>>, <<34, 114, 101, 100, 34>>, <<34, 34>> >>,
      \* 74 -9999 3 -33 "\s\ razor" "8" 3 11 "sr" ""
      << <<55, 52>>, <<45, 57, 57, 57, 57>>, <<51>>, <<45, 51, 51>>,
         <<34, 92, 115, 92, 32, 114, 97, 122, 111, 114, 34>>, <<34, 56, 34>>,
         <<51>>, <<49, 49>>, <<34, 115, 114, 34>>, <<34, 34>> >>,
      \* 1446 0 32 64 "Zepp" "" 0 0
      << <<49, 52, 52, 54>>, <<48>>, <<51, 50>>, <<54, 52>>,
         <<34, 90, 101, 112, 112, 34>>, <<34, 34>>, <<48>>, <<48>> >> }

TokenPool ==
    { <<>>,                                              \* (empty)
      <<48>>,                                            \* 0
      <<53>>,                                            \* 5
      <<43, 55>>,                                        \* +7
      <<45, 49>>,                                        \* -1
      <<45>>,                                            \* -
      <<83>>,                                            \* S
      <<50, 53, 53>>,                                    \* 255
      <<50, 53, 54>>,                                    \* 256
      <<54, 54, 54>>,                                    \* 666
      <<49, 49>>,                                        \* 11
      <<49, 50>>,                                        \* 12
      <<54, 48, 48>>,                                    \* 600
      <<54, 48, 49>>,                                    \* 601
      <<45, 49, 50>>,                                    \* -12
      <<45, 54, 48, 49>>,                                \* -601
      <<50, 49, 52, 55, 52, 56, 51, 54, 52, 55>>,        \* 2147483647
      <<50, 49, 52, 55, 52, 56, 51, 54, 52, 56>>,        \* 2147483648
      <<45, 50, 49, 52, 55, 52, 56, 51, 54, 52, 56>>,    \* -2147483648
      <<45, 50, 49, 52, 55, 52, 56, 51, 54, 52, 57>>,    \* -2147483649
      <<52, 50, 57, 52, 57, 54, 55, 50, 57, 53>>,        \* 4294967295
      <<52, 50, 57, 52, 57, 54, 55, 50, 57, 54>>,        \* 4294967296
      <<34, 92, 115, 92, 92, 115, 92, 120, 34>>,         \* "\s\\s\x"
      <<34, 97, 92, 115, 92, 34>>,                       \* "a\s\"
      <<34, 97, 32, 98, 34>>,                            \* "a b"
      <<34, 120>> }                                      \* "x  (unterminated)

ClientLineTokens ==
    { Resize(Replace(base, k, t), n) :
        base \in ClientBaseLines, k \in 1..MaxTokens, t \in TokenPool, n \in 0..MaxTokens }

ClientLines == { Join(toks) : toks \in ClientLineTokens }

QtvBaseLines ==
    { \* qtv 1 "zasadzka Qtv (2)" "2@zasadzka.pl:28000" 2
      << <<113, 116, 118>>, <<49>>,
         <<34, 122, 97, 115, 97, 100, 122, 107, 97, 32, 81, 116, 118, 32, 40, 50, 41, 34>>,
         <<34, 50, 64, 122, 97, 115, 97, 100, 122, 107, 97, 46, 112, 108, 58, 50, 56, 48, 48, 48, 34>>,
         <<50>> >>,
      \* nqtv 1 "dm6.uk Qtv (7)" "7@dm6.uk:28000" 4
      << <<110, 113, 116, 118>>, <<49>>,
         <<34, 100, 109, 54, 46, 117, 107, 32, 81, 116, 118, 32, 40, 55, 41, 34>>,
         <<34, 55, 64, 100, 109, 54, 46, 117, 107, 58, 50, 56, 48, 48, 48, 34>>,
         <<52>> >> }

LocatorPool ==
    { <<34, 100, 109, 54, 46, 117, 107, 58, 50, 56, 48, 48, 48, 34>>,            \* "dm6.uk:28000"
      <<34, 55, 64, 100, 109, 54, 46, 117, 107, 34>>,                            \* "7@dm6.uk"
      <<34, 100, 109, 54, 46, 117, 107, 34>>,                                    \* "dm6.uk"
      <<34, 120, 64, 100, 109, 54, 46, 117, 107, 58, 50, 56, 48, 48, 48, 34>>,   \* "x@dm6.uk:28000"
      <<34, 55, 64, 100, 109, 54, 46, 117, 107, 58, 54, 53, 53, 51, 53, 34>>,    \* "7@dm6.uk:65535"
      <<34, 55, 64, 100, 109, 54, 46, 117, 107, 58, 54, 53, 53, 51, 54, 34>>,    \* "7@dm6.uk:65536"
      <<34, 55, 64, 100, 109, 54, 46, 117, 107, 58, 34>>,                        \* "7@dm6.uk:"
      <<34, 55, 64, 97, 64, 98, 58, 49, 34>>,                                    \* "7@a@b:1"
      <<34, 55, 64, 98, 58, 49, 58, 50, 34>>,                                    \* "7@b:1:2"
      <<34, 64, 58, 53, 34>>,                                                    \* "@:5"
      <<34, 52, 50, 57, 52, 57, 54, 55, 50, 57, 54, 64, 98, 58, 49, 34>> }       \* "4294967296@b:1"

QtvLineTokens ==
    { Resize(Replace(base, k, t), n) :
        base \in QtvBaseLines, k \in 1..MaxTokens,
        t \in TokenPool \cup LocatorPool, n \in 0..MaxTokens }

QtvLines == { Join(toks) : toks \in QtvLineTokens }

(***************************************************************************)
(* Enumerated status buffers: a header, a first record and up to MaxRows   *)
(* further records, each record after the first preceded by a line feed,   *)
(* with or without a line feed at the end.                                 *)
(***************************************************************************)
HeaderPool ==
    { StatusHeader,
      <<>>,
      <<0>>,
      <<255, 255, 255, 255>>,
      <<255, 255, 255, 255, 111>>,
      <<255, 255, 255, 110, 255>> }

FirstRecordPool ==
    { <<>>,
      <<0>>,
      <<104, 111, 115, 116, 110, 97, 109, 101, 92>>,              \* hostname\   (9 bytes)
      <<104, 111, 115, 116, 110, 97, 109, 101, 92, 120>>,         \* hostname\x  (10 bytes)
      \* \teamplay\2\hostname\a b
      <<92, 116, 101, 97, 109, 112, 108, 97, 121, 92, 50, 92, 104, 111, 115, 116,
        110, 97, 109, 101, 92, 97, 32, 98>>,
      \* 9 2 3 25 "a" "" 5 6
      <<57, 32, 50, 32, 51, 32, 50, 53, 32, 34, 97, 34, 32, 34, 34, 32, 53, 32, 54>>,
      \* qtv 9 "n" "2@h:28000" 2
      <<113, 116, 118, 32, 57, 32, 34, 110, 34, 32, 34, 50, 64, 104, 58, 50, 56, 48,
        48, 48, 34, 32, 50>>,
      \* 10 20 30 40
      <<49, 48, 32, 50, 48, 32, 51, 48, 32, 52, 48>> }

RowPool ==
    { <<>>,
      <<0>>,
      \* 7 11 2 25 "ab" "" 4 4 "red"
      <<55, 32, 49, 49, 32, 50, 32, 50, 53, 32, 34, 97, 98, 34, 32, 34, 34, 32, 52,
        32, 52, 32, 34, 114, 101, 100, 34>>,
      \* 8 -9999 2 -56 "\s\cd" "" 4 4 "red"
      <<56, 32, 45, 57, 57, 57, 57, 32, 50, 32, 45, 53, 54, 32, 34, 92, 115, 92, 99,
        100, 34, 32, 34, 34, 32, 52, 32, 52, 32, 34, 114, 101, 100, 34>>,
      <<49, 32, 50, 32, 51>>,                                     \* 1 2 3
      <<120, 32, 50, 32, 51>>,                                    \* x 2 3
      \* qtv 1 "Q" "2@h:28000" 3
      <<113, 116, 118, 32, 49, 32, 34, 81, 34, 32, 34, 50, 64, 104, 58, 50, 56, 48,
        48, 48, 34, 32, 51>>,
      <<113, 116, 118, 32, 49>>,                                  \* qtv 1
      <<113, 116, 118, 32, 120>>,                                 \* qtv x
      \* qtv 1 "Q" "2@h" 3
      <<113, 116, 118, 32, 49, 32, 34, 81, 34, 32, 34, 50, 64, 104, 34, 32, 51>> }

RECURSIVE RowSeqs(_)
RowSeqs(n) ==
    IF n = 0 THEN { <<>> }
    ELSE LET shorter == RowSeqs(n - 1)
         IN  shorter \cup { Append(rs, r) : rs \in { x \in shorter : Len(x) = n - 1 }, r \in RowPool }

RECURSIVE Lines(_)
Lines(rs) == IF rs = <<>> THEN <<>> ELSE <<LF>> \o Head(rs) \o Lines(Tail(rs))

StatusBodies(maxRows) ==
    { first \o Lines(rs) \o end :
        first \in FirstRecordPool, rs \in RowSeqs(maxRows), end \in { <<>>, <<LF>> } }

\* every header with the bodies of at most one further record, and the
\* status header with every body
StatusBuffers ==
    { h \o body : h \in HeaderPool, body \in StatusBodies(1) }
        \cup { StatusHeader \o body : body \in StatusBodies(MaxRows) }

(***************************************************************************)
(* SpecClient: the client record decoder applied to one line.              *)
(***************************************************************************)
InitClient ==
    /\ bytes \in ClientLines
    /\ server = NoServer
    /\ query_address = <<>>
    /\ sent = <<>>
    /\ received = NoResult
    /\ res = NoResult
    /\ ip = <<>>
    /\ result = NoResult
    /\ pc = "ready"

DecodeClient ==
    /\ pc = "ready"
    /\ result' = QuakeClient_try_from(bytes)
    /\ pc' = "returned"
    /\ UNCHANGED <<bytes, server, query_address, sent, received, res, ip>>

NextClient == DecodeClient

SpecClient == InitClient /\ [][NextClient]_vars

(***************************************************************************)
(* SpecQtv: the stream announcement decoder applied to one line.           *)
(***************************************************************************)
InitQtv ==
    /\ bytes \in QtvLines
    /\ server = NoServer
    /\ query_address = <<>>
    /\ sent = <<>>
    /\ received = NoResult
    /\ res = NoResult
    /\ ip = <<>>
    /\ result = NoResult
    /\ pc = "ready"

DecodeQtv ==
    /\ pc = "ready"
    /\ result' = QtvStream_try_from(bytes)
    /\ pc' = "returned"
    /\ UNCHANGED <<bytes, server, query_address, sent, received, res, ip>>

NextQtv == DecodeQtv

SpecQtv == InitQtv /\ [][NextQtv]_vars

(***************************************************************************)
(* SpecStatus: the status response decoder applied to one buffer.          *)
(***************************************************************************)
InitStatus ==
    /\ bytes \in StatusBuffers
    /\ server = NoServer
    /\ query_address = <<>>
    /\ sent = <<>>
    /\ received = NoResult
    /\ res = NoResult
    /\ ip = <<>>
    /\ result = NoResult
    /\ pc = "ready"

DecodeStatus ==
    /\ pc = "ready"
    /\ result' = Status119Response_try_from(bytes)
    /\ pc' = "returned"
    /\ UNCHANGED <<bytes, server, query_address, sent, received, res, ip>>

NextStatus == DecodeStatus

SpecStatus == InitStatus /\ [][NextStatus]_vars

(***************************************************************************)
(* The tokenizer on its own: tokenize(line) for every short line over a    *)
(* letter, another letter, the space and the double quote.                 *)
(***************************************************************************)
TokenizerAlphabet == {97, 98, SPACE, QUOTE}

TokenizerLines == UNION { [1..n -> TokenizerAlphabet] : n \in 0..MaxLineLen }

InitTokenize ==
    /\ bytes \in TokenizerLines
    /\ server = NoServer
    /\ query_address = <<>>
    /\ sent = <<>>
    /\ received = NoResult
    /\ res = NoResult
    /\ ip = <<>>
    /\ result = NoResult
    /\ pc = "ready"

Tokenize ==
    /\ pc = "ready"
    /\ result' = Returned(tokenize(bytes))
    /\ pc' = "returned"
    /\ UNCHANGED <<bytes, server, query_address, sent, received, res, ip>>

NextTokenize == Tokenize

SpecTokenize == InitTokenize /\ [][NextTokenize]_vars

(***************************************************************************)
(* Enumerated servers: a base list of four clients, at most one of them    *)
(* replaced, cut or extended to n clients, with a teamplay setting.  Every *)
(* client is built as the client decoder builds it from its raw fields.    *)
(***************************************************************************)
MkClient(id, name, team, frags_, ping_, top_color, bottom_color) ==
    ClientOf(<< <<>>, <<>>, <<>>, <<>>, name, <<>>, <<>>, <<>>, team >>,
             ToU32(id), frags_, ToU32(0), ping_, top_color, bottom_color)

NameFoo  == <<102, 111, 111>>          \* foo
NameAxe2 == <<225, 248, 229, 50>>      \* áøå2
NameAxe  == <<97, 120, 101>>           \* axe
NameB    == <<66>>                     \* B
NameLowB == <<98>>                     \* b
TeamRed    == <<114, 101, 100>>        \* red
TeamCapRed == <<82, 101, 100>>         \* Red
TeamBlue   == <<98, 108, 117, 101>>    \* blue
TeamGreen  == <<103, 114, 101, 101, 110>>  \* green

ServerBaseClients ==
    { << MkClient(1, NameAxe, TeamRed, 10, 12, 0, 0),
         MkClient(2, NameAxe2, TeamRed, 5, 25, 4, 4),
         MkClient(3, NameFoo, TeamRed, 2, 25, 4, 4),
         MkClient(4, NameB, TeamBlue, 7, 52, 13, 13) >>,
      << MkClient(1, NameFoo, TeamBlue, 3, 1, 13, 13),
         MkClient(2, NameB, TeamBlue, -2, 2, 13, 13),
         MkClient(3, NameAxe, <<>>, 4, 30, 0, 0),
         MkClient(4, NameAxe2, TeamGreen, 0, 0, 4, 4) >> }

ClientPool ==
    { MkClient(9, NameLowB, TeamRed, 5, -1, 4, 4),             \* a spectator
      MkClient(9, NameLowB, TeamRed, 1, 40, 13, 13),           \* a third pair of colors
      MkClient(9, NameLowB, TeamRed, MaxI32, 40, 4, 4),        \* frags at the top of i32
      MkClient(9, NameLowB, TeamRed, MinI32, 40, 4, 4),        \* frags at the bottom of i32
      MkClient(9, NameLowB, TeamRed, 0, MaxI32, 4, 4),         \* ping at the top of i32
      MkClient(9, NameLowB, TeamCapRed, 1, 16777217, 4, 4),    \* ping 2^24 + 1
      MkClient(9, NameLowB, <<>>, 1, 13, 0, 0),                \* no team name
      MkClient(9, NameLowB, TeamBlue, -7, 600, 4, 4),
      MkClient(9, NameLowB, TeamGreen, 6, MinI32, 0, 0) }      \* a spectator, ping 2^31

ExtraClient == MkClient(8, NameAxe, TeamRed, 1, 13, 0, 0)

ResizeClients(clients, n) ==
    [i \in 1..n |-> IF i <= Len(clients) THEN clients[i] ELSE ExtraClient]

TeamplayPool == {None, Some(0), Some(1)}

Servers ==
    { [clients |-> ResizeClients(Replace(base, k, c), n), settings |-> [teamplay |-> tp]] :
        base \in ServerBaseClients, k \in 0..MaxClients, c \in ClientPool,
        n \in 0..MaxClients, tp \in TeamplayPool }

(***************************************************************************)
(* SpecGameServer: GameServer::from applied to one server.                 *)
(***************************************************************************)
InitGameServer ==
    /\ bytes = <<>>
    /\ server \in Servers
    /\ query_address = <<>>
    /\ sent = <<>>
    /\ received = NoResult
    /\ res = NoResult
    /\ ip = <<>>
    /\ result = NoResult
    /\ pc = "ready"

Classify ==
    /\ pc = "ready"
    /\ \E overflow_checks \in BOOLEAN : result' \in GameServer_from(server, overflow_checks)
    /\ pc' = "returned"
    /\ UNCHANGED <<bytes, server, query_address, sent, received, res, ip>>

NextGameServer == Classify

SpecGameServer == InitGameServer /\ [][NextGameServer]_vars

(***************************************************************************)
(* SpecVersion: the two types derived from one version string, as          *)
(* QuakeServer::try_from_address derives them.  The strings are a word, in *)
(* lower case, capitalised or in upper case, alone or with something before*)
(* or after it.                                                            *)
(***************************************************************************)
WordPool ==
    { <<>>, WordFo, WordFte, WordMvdsv, WordQtvgo, WordQtv, WordQwfwd,
      <<117, 110, 107, 110, 111, 119, 110>>,       \* unknown
      <<102>>,                                     \* f
      <<113, 116>>,                                \* qt
      <<113, 116, 118, 103>>,                      \* qtvg
      <<102, 116, 233>> }                          \* fté

UpperChar(c) == IF c >= 97 /\ c <= 122 THEN c - 32 ELSE IF c = 233 THEN 201 ELSE c

Capitalised(w) == [i \in 1..Len(w) |-> IF i = 1 THEN UpperChar(w[i]) ELSE w[i]]

UpperCased(w) == [i \in 1..Len(w) |-> UpperChar(w[i])]

SuffixPool ==
    { <<>>,
      <<120>>,                                     \* x
      <<120, SPACE, 49, 46, 48>>,                  \* "x 1.0"
      <<SPACE>>,
      <<SPACE, 49, 46, 48>>,                       \* " 1.0"
      <<SPACE, SPACE, SPACE, SPACE, SPACE, 49, 46, 48>>,
      <<45, 49>> }                                 \* -1

LeadPool == { <<>>, <<SPACE>>, <<120>> }

VersionStrings ==
    { lead \o word \o suffix :
        lead \in LeadPool,
        word \in UNION { {w, Capitalised(w), UpperCased(w)} : w \in WordPool },
        suffix \in SuffixPool }

InitVersion ==
    /\ bytes \in VersionStrings
    /\ server = NoServer
    /\ query_address = <<>>
    /\ sent = <<>>
    /\ received = NoResult
    /\ res = NoResult
    /\ ip = <<>>
    /\ result = NoResult
    /\ pc = "ready"

DeriveTypes ==
    /\ pc = "ready"
    /\ result' = Returned([server_type |-> ServerType_from_version(bytes),
                           software_type |-> SoftwareType_from_version(bytes)])
    /\ pc' = "returned"
    /\ UNCHANGED <<bytes, server, query_address, sent, received, res, ip>>

NextVersion == DeriveTypes

SpecVersion == InitVersion /\ [][NextVersion]_vars

(***************************************************************************)
(* Enumerated qtvusers buffers: a header, the token of a stream id, a list *)
(* of names and an ending.                                                 *)
(***************************************************************************)
QtvusersHeaderPool ==
    { QtvusersHeader,
      <<255, 255, 255, 255, 110, 113, 116, 118, 117, 115, 101, 114, 115>>,  \* no space
      <<255, 255, 255, 110, 113, 116, 118, 117, 115, 101, 114, 115, 32>>,   \* three 0xFF
      StatusHeader,
      <<>> }

StreamIdPool ==
    { <<49, 50>>,                                  \* 12
      <<49>>,                                      \* 1
      <<43, 51>>,                                  \* +3
      <<45, 49>>,                                  \* -1
      <<>>,
      <<120>>,                                     \* x
      <<34, 55, 34>>,                              \* "7"
      <<49, 56, 52, 52, 54, 55, 52, 52, 48, 55, 51, 55, 48, 57, 53, 53, 49, 54, 49, 53>>,
      <<49, 56, 52, 52, 54, 55, 52, 52, 48, 55, 51, 55, 48, 57, 53, 53, 49, 54, 49, 54>> }

\* what follows the stream id up to the end of the line
NamesPool ==
    { <<>>,
      <<SPACE, 34, 91, 115, 116, 114, 101, 97, 109, 98, 111, 116, 93, 34,
        SPACE, 34, 88, 97, 110, 116, 111, 77, 34>>,        \* "[streambot]" "XantoM"
      <<SPACE, 97, SPACE, 97>>,                            \* a a
      <<SPACE, 98, SPACE, 97, SPACE, 98>>,                 \* b a b
      <<SPACE, 34, 97, SPACE, 98, 34>>,                    \* "a b"
      <<SPACE>> }

QtvusersEndPool == { <<LF>>, <<>>, <<LF, 122, LF>>, <<0>> }

QtvusersBuffers ==
    { header \o id \o names \o ending :
        header \in QtvusersHeaderPool, id \in StreamIdPool,
        names \in NamesPool, ending \in QtvusersEndPool }

(***************************************************************************)
(* SpecQtvusers: the qtvusers response decoder applied to one buffer.      *)
(***************************************************************************)
InitQtvusers ==
    /\ bytes \in QtvusersBuffers
    /\ server = NoServer
    /\ query_address = <<>>
    /\ sent = <<>>
    /\ received = NoResult
    /\ res = NoResult
    /\ ip = <<>>
    /\ result = NoResult
    /\ pc = "ready"

DecodeQtvusers ==
    /\ pc = "ready"
    /\ result' = QtvusersResponse_try_from(bytes)
    /\ pc' = "returned"
    /\ UNCHANGED <<bytes, server, query_address, sent, received, res, ip>>

NextQtvusers == DecodeQtvusers

SpecQtvusers == InitQtvusers /\ [][NextQtvusers]_vars

(***************************************************************************)
(* SpecQuery: one call of QuakeServer::try_from_address.  The network and  *)
(* the name resolution are the environment's: an exchange gives a datagram *)
(* or fails, the resolution gives the text of an IPv4 address or nothing.  *)
(* sent holds the requests handed to tinyudp::send_and_receive, in order,  *)
(* received what the last exchange gave, res the status snapshot.          *)
(***************************************************************************)
QueryAddresses ==
    { <<113, 119, 46, 115, 101, 58, 50, 56, 48, 48, 48>>,         \* qw.se:28000
      <<113, 119, 46, 115, 101>>,                                 \* qw.se
      <<91, 58, 58, 49, 93, 58, 50, 56, 48, 48, 48>> }            \* [::1]:28000

QuerySettingsPool ==
    { <<92, 104, 111, 115, 116, 110, 97, 109, 101, 92, 120>>,     \* \hostname\x
      \* \hostport\qw.se:28501\*version\MVDSV 1.0
      <<92>> \o KeyHostport \o <<92, 113, 119, 46, 115, 101, 58, 50, 56, 53, 48, 49, 92>>
          \o KeyVersion \o <<92, 77, 86, 68, 83, 86, 32, 49, 46, 48>>,
      \* \*version\QTV 1.0\hostport\qw.se
      <<92>> \o KeyVersion \o <<92, 81, 84, 86, 32, 49, 46, 48, 92>>
          \o KeyHostport \o <<92, 113, 119, 46, 115, 101>>,
      \* \hostport\qw.se:99999
      <<92>> \o KeyHostport \o <<92, 113, 119, 46, 115, 101, 58, 57, 57, 57, 57, 57>> }

QueryRowsPool ==
    { <<>>,
      \* 7 11 2 25 "ab" "" 4 4 "red"
      << <<55, 32, 49, 49, 32, 50, 32, 50, 53, 32, 34, 97, 98, 34, 32, 34, 34, 32, 52,
           32, 52, 32, 34, 114, 101, 100, 34>> >>,
      \* qtv 1 "Q" "2@h:28000" 3
      << <<113, 116, 118, 32, 49, 32, 34, 81, 34, 32, 34, 50, 64, 104, 58, 50, 56, 48,
           48, 48, 34, 32, 51>> >>,
      \* the client, then the announcement
      << <<55, 32, 49, 49, 32, 50, 32, 50, 53, 32, 34, 97, 98, 34, 32, 34, 34, 32, 52,
           32, 52, 32, 34, 114, 101, 100, 34>>,
         <<113, 116, 118, 32, 49, 32, 34, 81, 34, 32, 34, 50, 64, 104, 58, 50, 56, 48,
           48, 48, 34, 32, 51>> >>,
      << <<113, 116, 118, 32, 120>> >>,                           \* qtv x
      << <<113, 116, 118, 32, 49>> >> }                           \* qtv 1

\* what tinyudp::send_and_receive can give for the status request
StatusReplies ==
    { Ok(StatusHeader \o settings \o Lines(rows)) :
        settings \in QuerySettingsPool, rows \in QueryRowsPool }
        \cup { Ok(<<>>), Ok(StatusHeader \o <<120>>), Err("timeout"), Err("io") }

\* what tinyudp::send_and_receive can give for the qtvusers request
QtvusersReplies ==
    { \* 12 "[streambot]" "XantoM"
      Ok(QtvusersHeader \o <<49, 50, SPACE, 34, 91, 115, 116, 114, 101, 97, 109, 98, 111,
                             116, 93, 34, SPACE, 34, 88, 97, 110, 116, 111, 77, 34, LF>>),
      Ok(QtvusersHeader \o <<49, LF>>),                           \* 1
      Ok(StatusHeader \o <<49, SPACE, 97, LF>>),                  \* another header
      Ok(QtvusersHeader \o <<49, 50, SPACE, 97>>),                \* no line feed
      Ok(QtvusersHeader \o <<120, SPACE, 97, LF>>),               \* x a
      Err("timeout"),
      Err("io") }

\* net_extra::address_to_ip(address).unwrap_or_default()
IpPool == { <<>>, <<49, 46, 50, 46, 51, 46, 52>> }                \* 1.2.3.4

InitQuery ==
    /\ bytes = <<>>
    /\ server = NoServer
    /\ query_address \in QueryAddresses
    /\ sent = <<>>
    /\ received = NoResult
    /\ res = NoResult
    /\ ip = <<>>
    /\ result = NoResult
    /\ pc = "ready"

\* status_119 up to the await of the exchange
SendStatus ==
    /\ pc = "ready"
    /\ sent' = Append(sent, StatusRequest)
    /\ pc' = "status"
    /\ UNCHANGED <<bytes, server, query_address, received, res, ip, result>>

\* the status exchange ends: `?` on its error and on the decoder's, then the
\* name resolution and, without a stream, the rest of the call
ReceiveStatus ==
    /\ pc = "status"
    /\ \E reply \in StatusReplies, resolved \in IpPool :
          LET response == IF reply.tag = "Ok" THEN Status119Response_try_from(reply.val)
                          ELSE reply
          IN  /\ received' = reply
              /\ res' = response
              /\ IF response.tag # "Ok"
                 THEN /\ result' = response
                      /\ pc' = "returned"
                      /\ ip' = ip
                 ELSE /\ ip' = resolved
                      /\ IF NeedsQtvusers(response.val)
                         THEN /\ pc' = "enrich"
                              /\ result' = result
                         ELSE /\ result' = Finish(response.val, query_address, resolved)
                              /\ pc' = "returned"
    /\ UNCHANGED <<bytes, server, query_address, sent>>

\* qtvusers up to the await of the exchange
SendQtvusers ==
    /\ pc = "enrich"
    /\ sent' = Append(sent, QtvusersRequest)
    /\ pc' = "qtvusers"
    /\ UNCHANGED <<bytes, server, query_address, received, res, ip, result>>

\* the qtvusers exchange ends: unwrap_or_default, the stream with its
\* viewers, then the rest of the call
ReceiveQtvusers ==
    /\ pc = "qtvusers"
    /\ \E reply \in QtvusersReplies :
          LET response == IF reply.tag = "Ok" THEN QtvusersResponse_try_from(reply.val)
                          ELSE reply
              users == QtvusersOrDefault(response)
              qtv_stream == Some(WithViewers(res.val.qtv_stream.val, users))
              snapshot == [res.val EXCEPT !.qtv_stream = qtv_stream]
          IN  /\ received' = reply
              /\ IF response.tag = "Panic"
                 THEN /\ res' = res
                      /\ result' = Panic
                 ELSE /\ res' = Ok(snapshot)
                      /\ result' = Finish(snapshot, query_address, ip)
    /\ pc' = "returned"
    /\ UNCHANGED <<bytes, server, query_address, sent, ip>>

NextQuery == SendStatus \/ ReceiveStatus \/ SendQtvusers \/ ReceiveQtvusers

SpecQuery == InitQuery /\ [][NextQuery]_vars

(***************************************************************************)
(* What the claims speak of, read off the input buffer.                    *)
(***************************************************************************)
\* the tokens of the line a record decoder was given
LineTokens == tokenize(to_unicode(bytes))

\* the positions of the spaces of line that lie outside quotation mode: an
\* even number of double quotes stands before them
UnquotedSpaces(line) ==
    { i \in 1..Len(line) :
        /\ line[i] = SPACE
        /\ Cardinality({ j \in 1..(i - 1) : line[j] = QUOTE }) % 2 = 0 }

\* the k-th unquoted space of line; 0 for k = 0, Len(line) + 1 past the last
Boundary(line, k) ==
    LET sp == UnquotedSpaces(line)
    IN  IF k = 0 THEN 0
        ELSE IF k > Cardinality(sp) THEN Len(line) + 1
        ELSE CHOOSE i \in sp : Cardinality({ j \in sp : j < i }) = k - 1

NotQuote(c) == c # QUOTE

\* the k-th run of line between unquoted spaces, double quotes removed
Run(line, k) ==
    SelectSeq(SubSeq(line, Boundary(line, k - 1) + 1, Boundary(line, k) - 1), NotQuote)

\* the position of the last double quote of line, 0 when it has none
LastQuote(line) ==
    LET qs == { i \in 1..Len(line) : line[i] = QUOTE }
    IN  IF qs = {} THEN 0 ELSE CHOOSE i \in qs : \A j \in qs : j <= i

\* the raw ping of the line a client decoder was given
RawPing == ParseI32(LineTokens[4]).val

\* the magnitude of a signed 32-bit value, as an unsigned 32-bit value
Magnitude(v) ==
    IF v = MinI32 THEN U32(32768, 0) ELSE ToU32(IF v < 0 THEN -v ELSE v)

\* an unsigned 32-bit value is below / above a small number
BelowU32(u, k) == u.hi = 0 /\ u.lo < k
AboveU32(u, k) == u.hi > 0 \/ u.lo > k

\* the buffer begins with 0xFF 0xFF 0xFF 0xFF 'n'
BeginsWithStatusMagic ==
    /\ Len(bytes) >= 5
    /\ \A i \in 1..4 : bytes[i] = 255
    /\ bytes[5] = 110

\* the bytes after the five header bytes
StatusBody == DropFirst(bytes, 5)

\* the length of the first LF-delimited record of b, 0 when b has no record
FirstRecordLen(b) ==
    IF \E i \in 1..Len(b) : b[i] = LF
    THEN (CHOOSE i \in 1..Len(b) : b[i] = LF /\ \A j \in 1..(i - 1) : b[j] # LF) - 1
    ELSE Len(b)

ValidHeaderAndSettings ==
    BeginsWithStatusMagic /\ FirstRecordLen(StatusBody) >= 10

\* the records of the body
BodyRows == split(StatusBody, LF)

\* token k of a client line is absent or parses in the width of its field
ClientFieldParses(toks, k) ==
    CASE k \in {1, 3} -> ParseU32(toks[k]).ok
      [] k \in {2, 4} -> ParseI32(toks[k]).ok
      [] k \in {7, 8} -> ParseU8(toks[k]).ok

ClientNumericFieldFails(toks) ==
    \E k \in {1, 2, 3, 4, 7, 8} : k <= Len(toks) /\ ~ClientFieldParses(toks, k)

\* the last record after the first that starts with "qtv ", 0 without one
LastQtvRow ==
    LET qtv == { i \in 2..Len(BodyRows) : starts_with(BodyRows[i], QtvMarker) }
    IN  IF qtv = {} THEN 0 ELSE CHOOSE i \in qtv : \A j \in qtv : j <= i

\* the part of the locator after its first '@', the whole locator without one
LocatorHostport(url) ==
    IF \E i \in 1..Len(url) : url[i] = AT
    THEN DropFirst(url, CHOOSE i \in 1..Len(url) :
                            url[i] = AT /\ \A j \in 1..(i - 1) : url[j] # AT)
    ELSE url

\* the clients of the server classified, and whether its teamplay setting is
\* present and above 0
ServerClients == server.clients
TeamplayOn == server.settings.teamplay.some /\ server.settings.teamplay.val > 0

\* how many elements of the sequence s equal v
Count(s, v) == Cardinality({ i \in 1..Len(s) : s[i] = v })

\* the clients of the server that are not spectators, in the server's order
ServerPlayers == SelectSeq(ServerClients, IsPlayerClient)

\* the team names held by a client of the server that is not a spectator
PlayerTeamNames == { ServerPlayers[i].team : i \in 1..Len(ServerPlayers) }

\* a whole number of the i32 range, or a sum of a few, as v = q * 65536 + r
\* with r in 0..65535
SplitI32(v) == [q |-> v \div Limb, r |-> v % Limb]

RECURSIVE SumInts(_)
SumInts(vals) == IF vals = <<>> THEN 0 ELSE vals[1] + SumInts(Tail(vals))

\* the sum of the i32 values vals, free of any width
ExactSum(vals) ==
    LET qs == SumInts([i \in 1..Len(vals) |-> vals[i] \div Limb])
        rs == SumInts([i \in 1..Len(vals) |-> vals[i] % Limb])
    IN  [q |-> qs + rs \div Limb, r |-> rs % Limb]

\* the sum is a value of the i32 range
InI32(sum) == sum.q >= -32768 /\ sum.q <= 32767

\* the members of the team called name: the players of the result, in order
Members(name) ==
    LET ps == result.val.players
        at == { i \in 1..Len(ps) : ps[i].team = name }
    IN  [k \in 1..Cardinality(at) |->
            ps[CHOOSE i \in at : Cardinality({ j \in at : j < i }) = k - 1]]

MemberFrags(name) == [k \in 1..Len(Members(name)) |-> Members(name)[k].frags]

MemberColors(name) ==
    [k \in 1..Len(Members(name)) |-> <<Members(name)[k].top_color, Members(name)[k].bottom_color>>]

\* the mean of the pings of the members, a half and more rounded up: the
\* whole part of (2 * sum + n) / (2 * n), by long division on 16-bit limbs
RoundedMeanPing(name) ==
    LET ms == Members(name)
        n == Len(ms)
        his == SumInts([k \in 1..n |-> ms[k].ping.hi])
        los == SumInts([k \in 1..n |-> ms[k].ping.lo])
        q1 == (2 * his) \div (2 * n)
        rest == ((2 * his) % (2 * n)) * Limb + 2 * los + n
        q2 == rest \div (2 * n)
    IN  U32(q1 + q2 \div Limb, q2 % Limb)

\* the pairs of colors that no other pair of colors outnumbers
MostFrequent(colors) ==
    LET cnt(c) == Cardinality({ i \in 1..Len(colors) : colors[i] = c })
    IN  { colors[i] : i \in { k \in 1..Len(colors) :
                                \A j \in 1..Len(colors) : cnt(colors[j]) <= cnt(colors[k]) } }

\* the place of the first member whose pair of colors is c
FirstPlace(colors, c) ==
    CHOOSE i \in 1..Len(colors) : colors[i] = c /\ \A j \in 1..(i - 1) : colors[j] # c

\* the part of s before its first space, s itself when it has no space
BeforeFirstSpace(s) ==
    LET sp == { i \in 1..Len(s) : s[i] = SPACE }
    IN  IF sp = {} THEN s ELSE SubSeq(s, 1, (CHOOSE i \in sp : \A j \in sp : i <= j) - 1)

\* the word the version string is matched by
VersionWord == to_lowercase(BeforeFirstSpace(bytes))

\* s without the spaces it begins with
SkipSpaces(s) ==
    LET ns == { i \in 1..Len(s) : s[i] # SPACE }
    IN  IF ns = {} THEN <<>> ELSE DropFirst(s, (CHOOSE i \in ns : \A j \in ns : i <= j) - 1)

\* the first word of the version string, lower-cased: what stands between
\* the spaces it begins with and the next space
FirstVersionWord == to_lowercase(BeforeFirstSpace(SkipSpaces(bytes)))

\* the position of the first line feed of the buffer, 0 when it has none
FirstLineFeed ==
    LET lf == { i \in 1..Len(bytes) : bytes[i] = LF }
    IN  IF lf = {} THEN 0 ELSE CHOOSE i \in lf : \A j \in lf : i <= j

\* the tokens of the text between the qtvusers header and the first line feed
QtvusersTokens == tokenize(to_unicode(SubSeq(bytes, Len(QtvusersHeader) + 1, FirstLineFeed - 1)))

\* the buffer is one the qtvusers decoder is claimed to accept
QtvusersWellFormed ==
    /\ starts_with(bytes, QtvusersHeader)
    /\ FirstLineFeed > 0
    /\ ParseUsize(QtvusersTokens[1]).ok

\* the locator of the announcement, whether it has an '@', and the part
\* before its first '@'
Locator == LineTokens[4]

LocatorHasAt == \E i \in 1..Len(Locator) : Locator[i] = AT

ChannelPart ==
    SubSeq(Locator, 1, (CHOOSE i \in 1..Len(Locator) :
                            Locator[i] = AT /\ \A j \in 1..(i - 1) : Locator[j] # AT) - 1)

\* the channel number the locator is claimed to give
ClaimedChannel ==
    IF LocatorHasAt /\ ParseU32(ChannelPart).ok THEN ParseU32(ChannelPart).val ELSE ToU32(0)

\* an announcement of five tokens or more whose id and viewer count parse
\* and whose locator names no port that fails to parse
AnnouncementDecodable ==
    /\ Len(LineTokens) >= 5
    /\ ParseU32(LineTokens[2]).ok
    /\ ParseU32(LineTokens[5]).ok
    /\ \/ Hostport_try_from(LocatorHostport(Locator)).tag = "Ok"
       \/ \A i \in 1..Len(LocatorHostport(Locator)) : LocatorHostport(Locator)[i] # COLON

\* the records that do not start with "qtv " and decode as client records,
\* by their position in the body
ClientRows ==
    { i \in 1..Len(BodyRows) :
        /\ ~starts_with(BodyRows[i], QtvMarker)
        /\ QuakeClient_try_from(BodyRows[i]).tag = "Ok" }

\* the k-th of them in wire order
ClientRow(k) ==
    CHOOSE i \in ClientRows : Cardinality({ j \in ClientRows : j < i }) = k - 1

\* the records that start with "qtv ", by their position in the body
QtvRows == { i \in 1..Len(BodyRows) : starts_with(BodyRows[i], QtvMarker) }

\* no client record of the body makes the client decoder abort
NoClientAbort ==
    \A i \in 1..Len(BodyRows) :
        starts_with(BodyRows[i], QtvMarker) \/ QuakeClient_try_from(BodyRows[i]).tag # "Panic"

\* the names of a list of players or spectators never go down
InNameOrder(list) ==
    \A i, j \in 1..Len(list) : i < j => ord(list[i].name, list[j].name) # "Greater"

\* what an exchange gave once decoded as a qtvusers response
QtvusersOutcome(reply) ==
    IF reply.tag = "Ok" THEN QtvusersResponse_try_from(reply.val) ELSE reply

\* the address string of the query: the hostport setting of the snapshot
\* when it has one, the caller's address otherwise
QueryAddressString ==
    IF InfoValue(res.val.settings, KeyHostport).some
    THEN InfoValue(res.val.settings, KeyHostport).val
    ELSE query_address

\* the address string has a ':' and a u16 port after the first one
QueryAddressParses ==
    /\ \E i \in 1..Len(QueryAddressString) : QueryAddressString[i] = COLON
    /\ ParseU16(split_once(QueryAddressString, COLON).after).ok

(***************************************************************************)
(* C1 (as claimed): decoding a buffer with a valid header and a valid      *)
(* settings record always returns a snapshot, and the client records that  *)
(* cannot be decoded are only dropped.  Stated for buffers without stream  *)
(* announcements and with a settings record that is no client line, where  *)
(* the client records after the first alone decide the outcome.            *)
(***************************************************************************)
C1_UndecodableClientDropped ==
    ( /\ pc = "returned"
      /\ ValidHeaderAndSettings
      /\ QuakeClient_try_from(BodyRows[1]).tag = "Err"
      /\ \A i \in 1..Len(BodyRows) : ~starts_with(BodyRows[i], QtvMarker) )
    => result.tag = "Ok"

(***************************************************************************)
(* C2 (as claimed): the client record decoder returns an error value for   *)
(* every line of fewer than 8 tokens and for every line one of whose       *)
(* numeric fields does not parse.                                          *)
(***************************************************************************)
C2_ClientDecoderReturnsError ==
    ( /\ pc = "returned"
      /\ (Len(LineTokens) < 8 \/ ClientNumericFieldFails(LineTokens)) )
    => result.tag = "Err"

(***************************************************************************)
(* C3 (as claimed): the settings record adds no client and sets no stream: *)
(* a returned snapshot holds what the records after the first give.        *)
(***************************************************************************)
C3_SettingsRecordNotClassified ==
    (pc = "returned" /\ result.tag = "Ok")
    => LET later == ParseRows(BodyRows, 2, <<>>, None)
       IN  /\ later.tag = "Ok"
           /\ result.val.clients = later.val.clients
           /\ result.val.qtv_stream = later.val.qtv_stream

(***************************************************************************)
(* C4 (as claimed): when the last record starting with "qtv " fails to     *)
(* decode, decoding returns a snapshot whose stream is absent.  Stated for *)
(* buffers on none of whose records the client decoder aborts.             *)
(***************************************************************************)
C4_FailedStreamIsAbsent ==
    ( /\ pc = "returned"
      /\ ValidHeaderAndSettings
      /\ \A i \in 1..Len(BodyRows) :
            starts_with(BodyRows[i], QtvMarker)
                \/ QuakeClient_try_from(BodyRows[i]).tag # "Panic"
      /\ LastQtvRow # 0
      /\ QtvStream_try_from(BodyRows[LastQtvRow]).tag # "Ok" )
    => (result.tag = "Ok" /\ result.val.qtv_stream = None)

(***************************************************************************)
(* C5 (as claimed): the stream announcement decoder returns an error value *)
(* for every line of fewer than 5 tokens and for every line whose id or    *)
(* viewer count is not an unsigned integer.                                *)
(***************************************************************************)
C5_QtvDecoderReturnsError ==
    ( /\ pc = "returned"
      /\ \/ Len(LineTokens) < 5
         \/ ~ParseU32(LineTokens[2]).ok
         \/ ~ParseU32(LineTokens[5]).ok )
    => result.tag = "Err"

(***************************************************************************)
(* C6 (as claimed): a locator whose host:port part has no ':' is decoded   *)
(* to a stream descriptor with port 0.                                     *)
(***************************************************************************)
C6_NoColonGivesPortZero ==
    ( /\ pc = "returned"
      /\ Len(LineTokens) >= 5
      /\ ParseU32(LineTokens[2]).ok
      /\ ParseU32(LineTokens[5]).ok
      /\ \A i \in 1..Len(LocatorHostport(LineTokens[4])) :
            LocatorHostport(LineTokens[4])[i] # COLON )
    => (result.tag = "Ok" /\ result.val.address.port = 0)

(***************************************************************************)
(* C7: every buffer that does not begin with 0xFF 0xFF 0xFF 0xFF 'n',      *)
(* shorter buffers included, fails with the invalid-header error, whatever *)
(* its body is; a buffer that begins with them never does.                 *)
(***************************************************************************)
C7_InvalidHeader ==
    pc = "returned"
    => (result = Err("Invalid header") <=> ~BeginsWithStatusMagic)

\* a wrong header before a too-short body reports the header
C7_Witness ==
    /\ pc = "returned"
    /\ Len(bytes) >= 5
    /\ ~BeginsWithStatusMagic
    /\ FirstRecordLen(StatusBody) < 10
    /\ result = Err("Invalid header")

(***************************************************************************)
(* C8: with a valid header, decoding fails with the invalid-body error     *)
(* exactly when the body has no record or its first record is shorter than *)
(* 10 bytes, and returns no error at all from 10 bytes on.                 *)
(***************************************************************************)
C8_InvalidBody ==
    (pc = "returned" /\ BeginsWithStatusMagic)
    => /\ result = Err("Invalid body") <=> FirstRecordLen(StatusBody) < 10
       /\ FirstRecordLen(StatusBody) >= 10 => result.tag # "Err"

\* a first record of exactly 10 bytes is accepted
C8_Witness ==
    /\ pc = "returned"
    /\ BeginsWithStatusMagic
    /\ FirstRecordLen(StatusBody) = 10
    /\ result.tag = "Ok"

(***************************************************************************)
(* C9 (as claimed): a spectator's name loses exactly one leading \s\ and   *)
(* nothing else; a non-spectator's name is the name of the line.           *)
(***************************************************************************)
C9_OnePrefixStripped ==
    (pc = "returned" /\ result.tag = "Ok")
    => LET raw == LineTokens[5]
       IN  result.val.name =
               IF result.val.is_spectator /\ starts_with(raw, <<92, 115, 92>>)
               THEN DropFirst(raw, 3)
               ELSE raw

(***************************************************************************)
(* C10: a decoded client is a spectator exactly when its raw ping is below *)
(* 1; a spectator has frags 0, a non-spectator the frags of the line.      *)
(***************************************************************************)
C10_SpectatorFrags ==
    (pc = "returned" /\ result.tag = "Ok")
    => LET raw_ping == ParseI32(LineTokens[4]).val
           raw_frags == ParseI32(LineTokens[2]).val
       IN  /\ result.val.is_spectator <=> raw_ping < 1
           /\ result.val.is_spectator => result.val.frags = 0
           /\ ~result.val.is_spectator => result.val.frags = raw_frags

\* a ping of exactly 0 on a line that carries frags
C10_Witness ==
    /\ pc = "returned"
    /\ result.tag = "Ok"
    /\ ParseI32(LineTokens[4]).val = 0
    /\ ParseI32(LineTokens[2]).val # 0
    /\ result.val.is_spectator
    /\ result.val.frags = 0

\* C11: for every raw ping of the signed 32-bit range, the minimum included,
\* the stored ping of a decoded client is the absolute value of the raw ping,
\* and is_bot is true exactly when the stored ping is below 12 or above 600
C11_PingMagnitudeAndBot ==
    (pc = "returned" /\ result.tag = "Ok")
    => /\ result.val.ping = Magnitude(RawPing)
       /\ result.val.is_bot <=> (BelowU32(result.val.ping, 12) \/ AboveU32(result.val.ping, 600))

\* the raw ping is the minimum of the range: its magnitude does not fit i32
C11_Witness ==
    /\ pc = "returned"
    /\ result.tag = "Ok"
    /\ RawPing = MinI32
    /\ result.val.ping = U32(32768, 0)
    /\ result.val.is_bot

\* C12: the tokenizer returns one more token than the line has spaces outside
\* quotation mode; the empty line gives one empty token, two unquoted spaces
\* in a row and a trailing unquoted space give an empty token, and the last
\* token is always there
C12_TokenCount ==
    pc = "returned" /\ result.tag = "Value"
    => LET tokens == result.val
           sp == UnquotedSpaces(bytes)
       IN  /\ Len(tokens) = Cardinality(sp) + 1
           /\ bytes = <<>> => tokens = << <<>> >>
           /\ \A k \in 1..Cardinality(sp) :
                  Boundary(bytes, k) = Boundary(bytes, k - 1) + 1 => tokens[k] = <<>>
           /\ (Len(bytes) > 0 /\ Len(bytes) \in sp) => tokens[Len(tokens)] = <<>>

\* the line "a" followed by two spaces: three tokens, the last two empty
C12_Witness ==
    /\ pc = "returned"
    /\ bytes = <<97, SPACE, SPACE>>
    /\ result = Returned(<< <<97>>, <<>>, <<>> >>)

\* C13: no token holds a double quote, and the tokens in order are the runs
\* of the line between unquoted spaces with the double quotes removed; a
\* space in quotation mode stays in its token, and after an unterminated
\* quote the rest of the line is in one token
C13_TokensAreRuns ==
    pc = "returned" /\ result.tag = "Value"
    => LET tokens == result.val
           last == tokens[Len(tokens)]
           rest == Len(bytes) - LastQuote(bytes)
       IN  /\ \A k \in 1..Len(tokens) : \A i \in 1..Len(tokens[k]) : tokens[k][i] # QUOTE
           /\ tokens = [k \in 1..(Cardinality(UnquotedSpaces(bytes)) + 1) |-> Run(bytes, k)]
           /\ Cardinality({ i \in 1..Len(bytes) : bytes[i] = QUOTE }) % 2 = 1
              => /\ Len(last) >= rest
                 /\ SubSeq(last, Len(last) - rest + 1, Len(last))
                      = SubSeq(bytes, LastQuote(bytes) + 1, Len(bytes))

\* a quote that is never closed, with spaces after it: one token
C13_Witness ==
    /\ pc = "returned"
    /\ bytes = <<97, QUOTE, 98, SPACE, SPACE>>
    /\ result = Returned(<< <<97, 98, SPACE, SPACE>> >>)

\* C14: classification puts every client of the server in exactly one of the
\* player list and the spectator list, by its is_spectator flag; no client is
\* lost or duplicated, and the sizes of the two lists add up to the number of
\* clients
C14_ClientsPartitioned ==
    pc = "returned" /\ result.tag = "Value"
    => LET players == result.val.players
           spectators == result.val.spectators
       IN  /\ Len(players) + Len(spectators) = Len(ServerClients)
           /\ \A i \in 1..Len(ServerClients) :
                LET c == ServerClients[i]
                    same == { k \in 1..Len(ServerClients) :
                                /\ ServerClients[k].is_spectator = c.is_spectator
                                /\ ServerClients[k].id = c.id
                                /\ ServerClients[k].name = c.name }
                    as_player == { j \in 1..Len(players) :
                                     players[j].id = c.id /\ players[j].name = c.name }
                    as_spectator == { j \in 1..Len(spectators) :
                                        spectators[j].id = c.id /\ spectators[j].name = c.name }
                IN  IF c.is_spectator
                    THEN Cardinality(as_spectator) = Cardinality(same) /\ as_player = {}
                    ELSE Cardinality(as_player) = Cardinality(same) /\ as_spectator = {}

\* a server with players and spectators, classified
C14_Witness ==
    /\ pc = "returned"
    /\ result.tag = "Value"
    /\ Len(ServerClients) = 4
    /\ Len(result.val.players) = 2
    /\ Len(result.val.spectators) = 2

\* C15: with a teamplay setting present and above 0 the team list has exactly
\* one Team for each distinct team name found among the players, the empty
\* name included and names held by spectators only excluded; with teamplay
\* absent or 0 it is empty; the list is in non-decreasing order of the name
\* comparator
C15_TeamList ==
    pc = "returned" /\ result.tag = "Value"
    => LET teams == result.val.teams
       IN  IF TeamplayOn
           THEN /\ { teams[i].name : i \in 1..Len(teams) } = PlayerTeamNames
                /\ Len(teams) = Cardinality(PlayerTeamNames)
                /\ \A i, j \in 1..Len(teams) :
                     i < j => ord(teams[i].name, teams[j].name) # "Greater"
           ELSE teams = <<>>

\* team play with a player without team name, a team name held by a
\* spectator only, and two team names in the list
C15_Witness ==
    /\ pc = "returned"
    /\ result.tag = "Value"
    /\ TeamplayOn
    /\ <<>> \in PlayerTeamNames
    /\ \E i \in 1..Len(ServerClients) :
         ServerClients[i].is_spectator /\ ServerClients[i].team \notin PlayerTeamNames
    /\ Len(result.val.teams) = 2

(***************************************************************************)
(* C16 (as claimed): with team play on, classification returns a result    *)
(* whatever the frags are, and each team's frags is the sum of the frags   *)
(* of the players of that team name, so that the frags of the teams add up *)
(* to the frags of the players.                                            *)
(***************************************************************************)
C16_TeamFragsSum ==
    (pc = "returned" /\ TeamplayOn)
    => /\ result.tag = "Value"
       /\ LET teams == result.val.teams
              players == result.val.players
          IN  /\ \A i \in 1..Len(teams) :
                   SplitI32(teams[i].frags) = ExactSum(MemberFrags(teams[i].name))
              /\ ExactSum([i \in 1..Len(teams) |-> teams[i].frags])
                   = ExactSum([i \in 1..Len(players) |-> players[i].frags])

(***************************************************************************)
(* C17 (as claimed): each team's ping is the mean of the pings of its      *)
(* members rounded to the nearest whole number, a half away from zero.     *)
(***************************************************************************)
C17_TeamPingMean ==
    pc = "returned" /\ result.tag = "Value"
    => \A i \in 1..Len(result.val.teams) :
         result.val.teams[i].ping = RoundedMeanPing(result.val.teams[i].name)

\* C18: a team of one or two members has the pair of colors of its first
\* member; a team of three or more members one of whose pairs is more
\* frequent than every other has that pair; the pair of a team is always the
\* pair of one of its members
C18_TeamColors ==
    pc = "returned" /\ result.tag = "Value"
    => \A i \in 1..Len(result.val.teams) :
         LET team == result.val.teams[i]
             colors == MemberColors(team.name)
             pair == <<team.top_color, team.bottom_color>>
         IN  /\ Len(colors) \in {1, 2} => pair = colors[1]
             /\ (Len(colors) >= 3 /\ Cardinality(MostFrequent(colors)) = 1)
                => pair \in MostFrequent(colors)
             /\ \E k \in 1..Len(colors) : pair = colors[k]

\* a team of three whose first member wears the rarer pair, and a team of one
C18_Witness ==
    /\ pc = "returned"
    /\ result.tag = "Value"
    /\ \E i, j \in 1..Len(result.val.teams) :
         LET red == result.val.teams[i]
             other == result.val.teams[j]
         IN  /\ MemberColors(red.name) = << <<0, 0>>, <<4, 4>>, <<4, 4>> >>
             /\ <<red.top_color, red.bottom_color>> = <<4, 4>>
             /\ Len(MemberColors(other.name)) = 1

(***************************************************************************)
(* C19 (as claimed): in a team of three or more members where two or more  *)
(* pairs of colors share the highest count, the team has the one of them   *)
(* whose first wearer comes first among the members.                       *)
(***************************************************************************)
C19_TieGoesToFirst ==
    pc = "returned" /\ result.tag = "Value"
    => \A i \in 1..Len(result.val.teams) :
         LET team == result.val.teams[i]
             colors == MemberColors(team.name)
             tied == MostFrequent(colors)
             pair == <<team.top_color, team.bottom_color>>
         IN  (Len(colors) >= 3 /\ Cardinality(tied) >= 2)
             => /\ pair \in tied
                /\ \A c \in tied : FirstPlace(colors, pair) <= FirstPlace(colors, c)

\* C20: both types are derived for every version string; the part before the
\* first space, lower-cased, is matched exactly against fo, fte, mvdsv, qtvgo,
\* qtv and qwfwd, and any other word, the empty one and one that only starts
\* with one of these included, gives Unknown for both types
C20_TypesFromVersion ==
    pc = "returned"
    => /\ result.tag = "Value"
       /\ result.val.software_type =
            (CASE VersionWord = WordFo -> "FortressOne"
               [] VersionWord = WordFte -> "Fte"
               [] VersionWord = WordMvdsv -> "Mvdsv"
               [] VersionWord \in {WordQtvgo, WordQtv} -> "Qtv"
               [] VersionWord = WordQwfwd -> "Qwfwd"
               [] OTHER -> "Unknown")
       /\ result.val.server_type =
            (CASE VersionWord \in {WordFo, WordFte, WordMvdsv} -> "GameServer"
               [] VersionWord \in {WordQtvgo, WordQtv} -> "QtvServer"
               [] VersionWord = WordQwfwd -> "ProxyServer"
               [] OTHER -> "Unknown")

\* the version "MVDSVx 1.0": a word that only starts with mvdsv
C20_Witness ==
    /\ pc = "returned"
    /\ bytes = <<77, 86, 68, 83, 86, 120, SPACE, 49, 46, 48>>
    /\ result = Returned([server_type |-> "Unknown", software_type |-> "Unknown"])

(***************************************************************************)
(* C21 (as claimed): a version string whose first word is mvdsv, in any    *)
(* letter case and with any spaces around it, spaces before it included,   *)
(* gives Mvdsv and GameServer; one whose first word is qwfwd gives Qwfwd   *)
(* and ProxyServer.                                                        *)
(***************************************************************************)
C21_FirstWordTrimmed ==
    pc = "returned"
    => /\ FirstVersionWord = WordMvdsv
          => result = Returned([server_type |-> "GameServer", software_type |-> "Mvdsv"])
       /\ FirstVersionWord = WordQwfwd
          => result = Returned([server_type |-> "ProxyServer", software_type |-> "Qwfwd"])

\* C23: decoding a qtvusers response succeeds exactly when the buffer starts
\* with 0xFF 0xFF 0xFF 0xFF "nqtvusers ", holds a line feed, and the first
\* token of the text between the header and the first line feed parses as an
\* unsigned integer; the stream id is then that integer and the viewer names
\* are the remaining tokens in order, duplicates kept; in every other case an
\* error value is returned
C23_QtvusersDecoding ==
    pc = "returned"
    => IF QtvusersWellFormed
       THEN result = Ok([stream_id |-> ParseUsize(QtvusersTokens[1]).val,
                         client_names |-> SubSeq(QtvusersTokens, 2, Len(QtvusersTokens))])
       ELSE result.tag = "Err"

\* a response whose names hold the same name twice
C23_Witness ==
    /\ pc = "returned"
    /\ bytes = QtvusersHeader \o <<49, 50, SPACE, 98, SPACE, 97, SPACE, 98, LF>>
    /\ result = Ok([stream_id |-> [w3 |-> 0, w2 |-> 0, w1 |-> 0, w0 |-> 12],
                    client_names |-> << <<98>>, <<97>>, <<98>> >>])

\* C24 (as claimed): a locator without '@' gives channel number 0 with the
\* whole token used as host:port; a locator with '@' is split at its first
\* '@', and a channel-number part that is not an unsigned integer gives
\* channel number 0; the record is decoded in each case
C24_LocatorChannel ==
    (pc = "returned" /\ AnnouncementDecodable)
    => /\ result.tag = "Ok"
       /\ result.val.number = ClaimedChannel
       /\ Hostport_try_from(LocatorHostport(Locator)).tag = "Ok"
          => result.val.address = Hostport_try_from(LocatorHostport(Locator)).val

\* C25: the client list of a decoded snapshot is the sequence of the decoded
\* results of the records that do not start with "qtv " and decode as
\* client records, in wire order, none reordered or repeated; a dropped
\* record (a trailing NUL-only record among them) changes nothing else
C25_ClientsInWireOrder ==
    (pc = "returned" /\ result.tag = "Ok")
    => /\ Len(result.val.clients) = Cardinality(ClientRows)
       /\ \A k \in 1..Len(result.val.clients) :
             result.val.clients[k] = QuakeClient_try_from(BodyRows[ClientRow(k)]).val

\* a snapshot from a settings record, a client record and a trailing record
\* holding only a NUL byte
C25_Witness ==
    /\ pc = "returned"
    /\ result.tag = "Ok"
    /\ Len(BodyRows) = 3
    /\ BodyRows[3] = <<0>>
    /\ ClientRows = {2}
    /\ result.val.clients = <<QuakeClient_try_from(BodyRows[2]).val>>

\* C28 (as claimed): when several records start with "qtv ", the stream of
\* the snapshot is the decoding result of the last of them alone: present
\* when it decodes, absent when it fails to decode, whatever the earlier
\* ones gave.  Stated for buffers on none of whose records the client
\* decoder aborts.
C28_LastAnnouncementWins ==
    ( /\ pc = "returned"
      /\ ValidHeaderAndSettings
      /\ NoClientAbort
      /\ Cardinality(QtvRows) >= 2 )
    => /\ result.tag = "Ok"
       /\ result.val.qtv_stream = Result_ok(QtvStream_try_from(BodyRows[LastQtvRow]))

\* C26: in a classified server the spectators are in non-decreasing order of
\* display name; the players are in name order when team play is off, and
\* when it is on they are in non-decreasing order of team name, the players
\* of one team name in name order
C26_ListsOrdered ==
    (pc = "returned" /\ result.tag = "Value")
    => LET players == result.val.players
       IN  /\ InNameOrder(result.val.spectators)
           /\ ~TeamplayOn => InNameOrder(players)
           /\ TeamplayOn
              => \A i, j \in 1..Len(players) :
                    i < j => /\ ord(players[i].team, players[j].team) # "Greater"
                             /\ ord(players[i].team, players[j].team) = "Equal"
                                => ord(players[i].name, players[j].name) # "Greater"

\* team play on: two players of one team, and a player of a later team whose
\* name comes before theirs
C26_Witness ==
    /\ pc = "returned"
    /\ result.tag = "Value"
    /\ TeamplayOn
    /\ \E i, j, k \in 1..Len(result.val.players) :
          /\ i < j /\ j < k
          /\ result.val.players[i].team = result.val.players[j].team
          /\ result.val.players[i].name # result.val.players[j].name
          /\ ord(result.val.players[j].team, result.val.players[k].team) = "Less"
          /\ ord(result.val.players[j].name, result.val.players[k].name) = "Greater"
    /\ Len(result.val.spectators) >= 1

\* C29: the two derivations agree on every version string: the software
\* type is FortressOne, Fte or Mvdsv exactly when the server type is
\* GameServer, Qtv exactly when QtvServer, Qwfwd exactly when ProxyServer,
\* Unknown exactly when Unknown
C29_TypesAgree ==
    pc = "returned"
    => /\ result.tag = "Value"
       /\ result.val.software_type \in {"FortressOne", "Fte", "Mvdsv"}
             <=> result.val.server_type = "GameServer"
       /\ result.val.software_type = "Qtv" <=> result.val.server_type = "QtvServer"
       /\ result.val.software_type = "Qwfwd" <=> result.val.server_type = "ProxyServer"
       /\ result.val.software_type = "Unknown" <=> result.val.server_type = "Unknown"

\* QTVGO 1.0 is a QTV server by both derivations
C29_Witness ==
    /\ pc = "returned"
    /\ bytes = UpperCased(WordQtvgo) \o <<SPACE, 49, 46, 48>>
    /\ result = Returned([server_type |-> "QtvServer", software_type |-> "Qtv"])

\* C22: in a query whose status snapshot has a stream, the end of the
\* qtvusers exchange never fails the query, whether the exchange timed out,
\* failed in transport, or gave a response with a bad header, no line feed
\* or an unparsable stream id: the result holds the stream with no viewer
\* names then, and with the names returned when the exchange succeeded; id,
\* name, channel number, address and advertised viewer count are those of
\* the snapshot.  A query fails here only on its address string.
C22_EnrichmentNeverFails ==
    [][ (pc = "qtvusers" /\ pc' = "returned")
        => LET before == res.val.qtv_stream.val
               names == IF QtvusersOutcome(received').tag = "Ok"
                        THEN QtvusersOutcome(received').val.client_names
                        ELSE <<>>
           IN  IF QueryAddressParses
               THEN /\ result'.tag = "Ok"
                    /\ result'.val.qtv_stream =
                          Some([id |-> before.id,
                                name |-> before.name,
                                number |-> before.number,
                                address |-> before.address,
                                client_count |-> before.client_count,
                                client_names |-> names])
               ELSE result'.tag = "Err" ]_vars

\* the qtvusers exchange timed out and the query returned the stream of the
\* snapshot, three viewers advertised, without names
C22_Witness ==
    /\ pc = "returned"
    /\ sent = <<StatusRequest, QtvusersRequest>>
    /\ received = Err("timeout")
    /\ result.tag = "Ok"
    /\ result.val.qtv_stream.some
    /\ result.val.qtv_stream.val.client_names = <<>>
    /\ result.val.qtv_stream.val.client_count = ToU32(3)

\* C27: in one query the status request is sent exactly once and the
\* qtvusers request at most once, nothing is sent again; the qtvusers
\* request is sent only after the status response decoded and only when the
\* snapshot has a stream; when the status exchange fails or times out the
\* query returns that error and no qtvusers request is sent
C27_RequestOrder ==
    /\ sent \in { <<>>, <<StatusRequest>>, <<StatusRequest, QtvusersRequest>> }
    /\ pc # "ready" => Count(sent, StatusRequest) = 1
    /\ Count(sent, QtvusersRequest) = 1 => (res.tag = "Ok" /\ res.val.qtv_stream.some)
    /\ (pc = "returned" /\ res.tag = "Ok" /\ ~res.val.qtv_stream.some) => Len(sent) = 1
    /\ (pc = "returned" /\ res.tag # "Ok") => (result = res /\ Len(sent) = 1)
    /\ (pc = "returned" /\ Len(sent) = 1 /\ received.tag = "Err") => result = received

\* the status exchange timed out: the query returned the error after one
\* request
C27_Witness ==
    /\ pc = "returned"
    /\ sent = <<StatusRequest>>
    /\ received = Err("timeout")
    /\ result = Err("timeout")

\* C30: once the status response has decoded, the address string is the
\* hostport setting when the snapshot has one and the caller's address
\* otherwise; the query fails with an error when that string has no ':' or
\* when what follows its first ':' is no u16 port, and otherwise its result
\* has the host before the first ':' and that port
C30_ResultAddress ==
    (pc = "returned" /\ res.tag = "Ok")
    => IF QueryAddressParses
       THEN /\ result.tag = "Ok"
            /\ result.val.address =
                  [host |-> split_once(QueryAddressString, COLON).before,
                   port |-> ParseU16(split_once(QueryAddressString, COLON).after).val]
       ELSE result.tag = "Err"

\* the status response decoded, its hostport setting has no ':', and the
\* query of a well-formed address failed
C30_Witness ==
    /\ pc = "returned"
    /\ res.tag = "Ok"
    /\ query_address = <<113, 119, 46, 115, 101, 58, 50, 56, 48, 48, 48>>
    /\ QueryAddressString = <<113, 119, 46, 115, 101>>
    /\ result = Err("Invalid hostport format, expected host:port")

====
